---------------------------- MODULE Spec2Model ----------------------------
(***************************************************************************)
(* A model of the LSM key-value store: write-ahead log, memtables, the     *)
(* frozen queue with its flush worker, and the SSTable manager's manifest. *)
(*                                                                         *)
(* Bytes are small naturals, byte strings are sequences of them.  The WAL  *)
(* file is modelled as the byte sequence bincode writes, so that a torn    *)
(* append and what replay decodes from it are computed, not assumed.       *)
(***************************************************************************)
EXTENDS Naturals, Sequences, FiniteSets

(***************************************************************************)
(* Bounds of the model.                                                    *)
(***************************************************************************)
\* Number of put/delete calls (sequence numbers handed out) per history.
MaxOps == 2
\* Number of times the process ends (kill, panic or close) per history.
MaxRuns == 2
\* Number of flush attempts the worker makes per history.
MaxFlushes == 1
MaxManifestRecords == 4
MaxCommitted == 2
NumProcs == 2
MaxOpens == 3

(***************************************************************************)
(* Program constants.  The two size thresholds are scaled from 64 KiB to   *)
(* a few bytes so that a handful of one-byte keys and values crosses them. *)
(***************************************************************************)
\* memtable.rs: MEMTABLE_MAX_SIZE (64 KiB in the source, scaled).
MEMTABLE_MAX_SIZE == 2
\* wal.rs: WAL_MAX_SIZE (64 KiB in the source, scaled).
WAL_MAX_SIZE == 16
\* key.rs: u64::MAX, the seqno of Key::min_seqno (scaled to one byte).
U64_MAX == 250

\* User keys and values the writer draws from.
UserKeys == {<<1>>, <<2>>}
UserVals == {<<0>>, <<3>>}

(***************************************************************************)
(* Option and Value.                                                       *)
(***************************************************************************)
None == [some |-> FALSE, val |-> <<>>]
Some(v) == [some |-> TRUE, val |-> v]

\* value.rs: enum Value { Data(Bytes), Tombstone }
Data(b) == [tag |-> "Data", bytes |-> b]
Tombstone == [tag |-> "Tombstone", bytes |-> <<>>]

(***************************************************************************)
(* key.rs: Key(user_key, seqno) and its ordering.                          *)
(***************************************************************************)
Key_new(user_key, seqno) == [uk |-> user_key, sn |-> seqno]

Key_min_seqno(user_key) == Key_new(user_key, U64_MAX)

Key_max_seqno(user_key) == Key_new(user_key, 0)

\* Ord for bytes::Bytes: unsigned lexicographic order.
RECURSIVE BytesCmp(_, _)
BytesCmp(a, b) ==
    IF a = <<>> THEN (IF b = <<>> THEN "Equal" ELSE "Less")
    ELSE IF b = <<>> THEN "Greater"
    ELSE IF Head(a) < Head(b) THEN "Less"
    ELSE IF Head(a) > Head(b) THEN "Greater"
    ELSE BytesCmp(Tail(a), Tail(b))

\* The same with the sequence numbers compared in ascending order.
Key_cmp_seqno_ascending(a, b) ==
    LET ord == BytesCmp(a.uk, b.uk)
    IN  IF ord # "Equal" THEN ord
        ELSE IF a.sn < b.sn THEN "Less"
        ELSE IF a.sn > b.sn THEN "Greater"
        ELSE "Equal"

\* impl PartialOrd for Key: user key ascending, then seqno descending.
Key_cmp(a, b) ==
    LET ord == BytesCmp(a.uk, b.uk)
    IN  IF ord # "Equal" THEN ord
        ELSE IF a.sn < b.sn THEN "Greater"
        ELSE IF a.sn > b.sn THEN "Less"
        ELSE "Equal"

(***************************************************************************)
(* BTreeMap<Key, Value>: a sequence of entries kept sorted by Key_cmp.     *)
(***************************************************************************)
Entry(k, v) == [key |-> k, val |-> v]

\* Position after which k belongs: the number of entries with a smaller key.
BTree_lower(data, k) ==
    Cardinality({i \in 1..Len(data) : Key_cmp(data[i].key, k) = "Less"})

\* BTreeMap::insert: replaces the value of an equal key and returns the old
\* value, or inserts in order and returns None.
BTree_insert(data, k, v) ==
    LET n == BTree_lower(data, k)
    IN  IF n < Len(data) /\ Key_cmp(data[n + 1].key, k) = "Equal"
        THEN [data |-> [data EXCEPT ![n + 1] = Entry(k, v)],
              old  |-> Some(data[n + 1].val)]
        ELSE [data |-> SubSeq(data, 1, n) \o <<Entry(k, v)>>
                         \o SubSeq(data, n + 1, Len(data)),
              old  |-> None]

\* BTreeMap::range(lo..=hi): the entries with lo <= key <= hi, in order.
BTree_range(data, lo, hi) ==
    SelectSeq(data, LAMBDA e : /\ Key_cmp(lo, e.key) # "Greater"
                               /\ Key_cmp(e.key, hi) # "Greater")

(***************************************************************************)
(* memtable.rs: MemTable { data, size }.                                   *)
(***************************************************************************)
MemTable_new == [data |-> <<>>, size |-> 0]

Key_range_by_user_key(user_key) ==
    [lo |-> Key_min_seqno(user_key), hi |-> Key_max_seqno(user_key)]

MemTable_iter_by_user_key(t, k) ==
    LET r == Key_range_by_user_key(k) IN BTree_range(t.data, r.lo, r.hi)

\* get_latest taking the last entry of the range scan.
MemTable_get_oldest(t, k) ==
    LET it == MemTable_iter_by_user_key(t, k)
    IN  IF it = <<>> THEN None ELSE Some(it[Len(it)].val)

\* get_latest: the first entry of the range scan, if any.
MemTable_get_latest(t, k) ==
    LET it == MemTable_iter_by_user_key(t, k)
    IN  IF it = <<>> THEN None ELSE Some(Head(it).val)

MemTable_should_freeze(t) == t.size >= MEMTABLE_MAX_SIZE

\* MemTable::freeze that takes the data and leaves the size as it was.
MemTable_freeze_keeps_size(t) ==
    [frozen |-> t, active |-> [data |-> <<>>, size |-> t.size]]

\* freeze: returns the frozen table; the active one is left empty, size 0.

MemTable_freeze(t) == [frozen |-> t, active |-> MemTable_new]

MemTable_put(t, k, v) ==
    LET l_new == Len(v)
        l_key == Len(k.uk)
        ins   == BTree_insert(t.data, k, Data(v))
        size  == IF ins.old.some
                 THEN IF ins.old.val.tag = "Data"
                      THEN LET l_old == Len(ins.old.val.bytes)
                           IN  IF l_old > l_new
                               THEN t.size - (l_old - l_new)
                               ELSE t.size + (l_new - l_old)
                      ELSE t.size + l_new
                 ELSE t.size + l_new + l_key
    IN  [data |-> ins.data, size |-> size]

\* A delete that leaves the size alone when it replaces a value.
MemTable_delete_keeps_payload(t, k) ==
    LET l_key == Len(k.uk)
        ins   == BTree_insert(t.data, k, Tombstone)
    IN  [data |-> ins.data,
         size |-> IF ins.old.some THEN t.size ELSE t.size + l_key]

MemTable_delete(t, k) ==
    LET l_key == Len(k.uk)
        ins   == BTree_insert(t.data, k, Tombstone)
        size  == IF ins.old.some
                 THEN IF ins.old.val.tag = "Data"
                      THEN t.size - Len(ins.old.val.bytes)
                      ELSE t.size
                 ELSE t.size + l_key
    IN  [data |-> ins.data, size |-> size]

(***************************************************************************)
(* wal.rs: WalRecord and its bincode encoding (standard configuration,     *)
(* little endian, variable-length integers).  Every integer the model      *)
(* reaches is below 251, which bincode's varint writes as one byte.        *)
(***************************************************************************)
WalPut(k, v) == [op |-> "Put", key |-> k, val |-> v]
WalDelete(k) == [op |-> "Delete", key |-> k, val |-> <<>>]

EncVarint(n) == <<n>>

EncBytes(b) == EncVarint(Len(b)) \o b

\* Key derives Serialize: the two fields in order.
EncKey(k) == EncBytes(k.uk) \o EncVarint(k.sn)

\* The enum's variant index (Put = 0, Delete = 1), then the fields.
EncodeWalRecord(r) ==
    IF r.op = "Put"
    THEN EncVarint(0) \o EncKey(r.key) \o EncBytes(r.val)
    ELSE EncVarint(1) \o EncKey(r.key)

\* Decoding results: "ok" with the value and the next read position, "eof"
\* when the input ends first (DecodeError::UnexpectedEnd or an I/O
\* UnexpectedEof), "invalid" for any other decode error.
DecEof == [st |-> "eof"]
DecInvalid == [st |-> "invalid"]

DecVarint(b, pos) ==
    IF pos > Len(b) THEN DecEof
    ELSE IF b[pos] >= 251 THEN DecInvalid
    ELSE [st |-> "ok", val |-> b[pos], next |-> pos + 1]

DecBytes(b, pos) ==
    LET n == DecVarint(b, pos)
    IN  IF n.st # "ok" THEN n
        ELSE IF n.next + n.val - 1 > Len(b) THEN DecEof
        ELSE [st |-> "ok", val |-> SubSeq(b, n.next, n.next + n.val - 1),
              next |-> n.next + n.val]

DecKey(b, pos) ==
    LET u == DecBytes(b, pos)
    IN  IF u.st # "ok" THEN u
        ELSE LET s == DecVarint(b, u.next)
             IN  IF s.st # "ok" THEN s
                 ELSE [st |-> "ok", val |-> Key_new(u.val, s.val),
                       next |-> s.next]

DecodeWalRecord(b, pos) ==
    LET t == DecVarint(b, pos)
    IN  IF t.st # "ok" THEN t
        ELSE IF t.val \notin {0, 1} THEN DecInvalid
        ELSE LET k == DecKey(b, t.next)
             IN  IF k.st # "ok" THEN k
                 ELSE IF t.val = 1
                 THEN [st |-> "ok", val |-> WalDelete(k.val), next |-> k.next]
                 ELSE LET v == DecBytes(b, k.next)
                      IN  IF v.st # "ok" THEN v
                          ELSE [st |-> "ok", val |-> WalPut(k.val, v.val),
                                next |-> v.next]

\* Wal::replay: decode from offset 0 until the input ends; any other decode
\* error panics ("Invalid WAL record").
RECURSIVE ReplayFrom(_, _, _)
ReplayFrom(b, pos, acc) ==
    LET d == DecodeWalRecord(b, pos)
    IN  IF d.st = "ok" THEN ReplayFrom(b, d.next, Append(acc, d.val))
        ELSE IF d.st = "eof" THEN [st |-> "ok", recs |-> acc]
        ELSE [st |-> "panic", recs |-> <<>>]

Wal_replay(file) == ReplayFrom(file, 1, <<>>)

(***************************************************************************)
(* sstable/manifest.rs: Manifest and ManifestRecord.  A level's file map   *)
(* is a function from file numbers to FileMeta.  The manifest file is the  *)
(* sequence of records its frames hold.                                    *)
(***************************************************************************)
EmptyMap == [x \in {} |-> 0]

MapPut(f, k, v) == [x \in DOMAIN f \cup {k} |-> IF x = k THEN v ELSE f[x]]

MapRemove(f, k) == [x \in DOMAIN f \ {k} |-> f[x]]

Max(a, b) == IF a >= b THEN a ELSE b

\* Manifest::new: file number 0, seqno 0, level 0 present and empty.
Manifest_new ==
    [next_file_number |-> 0,
     last_committed_sequence_number |-> 0,
     levels |-> [l \in {0} |-> EmptyMap]]

RecSnapshot(m) == [kind |-> "Snapshot", manifest |-> m]
RecCreateFile(level, fm) == [kind |-> "CreateFile", level |-> level, file_meta |-> fm]
RecDeleteFile(level, n) == [kind |-> "DeleteFile", level |-> level, file_number |-> n]
RecSetLastSeqNo(n) == [kind |-> "SetLastSeqNo", seq_no |-> n]
RecAllocFileNumber(n) == [kind |-> "AllocFileNumber", file_no |-> n]

\* Manifest::alloc_file_number: returns the number, the record to log and
\* the manifest with next_file_number advanced.
Manifest_alloc_file_number(m) ==
    [id |-> m.next_file_number,
     record |-> RecAllocFileNumber(m.next_file_number),
     manifest |-> [m EXCEPT !.next_file_number = m.next_file_number + 1]]

\* levels.entry(level).or_insert_with(empty).files
LevelFiles(m, level) ==
    IF level \in DOMAIN m.levels THEN m.levels[level] ELSE EmptyMap

ApplyCreateFile(m, r) ==
    [m EXCEPT !.levels = MapPut(m.levels, r.level,
        MapPut(LevelFiles(m, r.level), r.file_meta.file_number, r.file_meta))]

ApplyDeleteFile(m, r) ==
    [m EXCEPT !.levels = MapPut(m.levels, r.level,
        MapRemove(LevelFiles(m, r.level), r.file_number))]

\* SSTableManager::append_record, the match that applies the record to the
\* in-memory manifest after the frame has been written.
Manager_apply_record(m, r) ==
    IF r.kind = "Snapshot" THEN r.manifest
    ELSE IF r.kind = "CreateFile" THEN ApplyCreateFile(m, r)
    ELSE IF r.kind = "DeleteFile" THEN ApplyDeleteFile(m, r)
    ELSE IF r.kind = "SetLastSeqNo"
    THEN [m EXCEPT !.last_committed_sequence_number =
                       Max(r.seq_no, m.last_committed_sequence_number)]
    ELSE [m EXCEPT !.next_file_number = Max(m.next_file_number, r.file_no + 1)]

\* Manifest::load_from_file, the match that applies one replayed record.
Manifest_load_record(m, r) ==
    IF r.kind = "Snapshot" THEN r.manifest
    ELSE IF r.kind = "CreateFile" THEN ApplyCreateFile(m, r)
    ELSE IF r.kind = "DeleteFile" THEN ApplyDeleteFile(m, r)
    ELSE IF r.kind = "SetLastSeqNo"
    THEN [m EXCEPT !.last_committed_sequence_number = r.seq_no]
    ELSE [m EXCEPT !.next_file_number = Max(r.file_no, m.next_file_number)]

\* Manifest::load_from_file: replay every record onto the initial manifest.
RECURSIVE LoadFrom(_, _, _)
LoadFrom(logs, i, m) ==
    IF i > Len(logs) THEN m
    ELSE LoadFrom(logs, i + 1, Manifest_load_record(m, logs[i]))

Manifest_load_from_file(logs) == LoadFrom(logs, 1, Manifest_new)

\* SSTableManager::sync without the sync_all.
Manager_sync_skipped(file, synced) == synced

\* SSTableManager::sync: sync_all covers every record appended so far.
Manager_sync(file, synced) == Len(file)

\* SSTableManager::alloc_file_number without the append_record.
Manager_alloc_file_number_unlogged(m, file) ==
    LET a == Manifest_alloc_file_number(m)
    IN  [fileno |-> a.id, manifest |-> a.manifest, file |-> file]

\* SSTableManager::alloc_file_number: allocate in memory, append the record
\* and sync.  Result: the number, the manifest and the manifest file.
Manager_alloc_file_number(m, file) ==
    LET a == Manifest_alloc_file_number(m)
    IN  [fileno |-> a.id,
         manifest |-> Manager_apply_record(a.manifest, a.record),
         file |-> Append(file, a.record)]

\* The bootstrap that writes the Snapshot of the manifest as it was before
\* the file number of the manifest file was allocated.
Manager_bootstrap_stale_snapshot ==
    LET a == Manifest_alloc_file_number(Manifest_new)
    IN  [current |-> Some(a.id),
         manifest |-> a.manifest,
         file |-> <<RecSnapshot(Manifest_new)>>]

\* SSTableManager::open when CURRENT is absent and manifests/ is empty: a
\* new manifest whose first file number names the manifest file itself, and
\* a Snapshot of it as the file's first record.
Manager_bootstrap ==
    LET a == Manifest_alloc_file_number(Manifest_new)
    IN  [current |-> Some(a.id),
         manifest |-> a.manifest,
         file |-> <<RecSnapshot(a.manifest)>>]

\* format!("{id:06}.{ext}"): the decimal digits of id, padded with zeros on
\* the left to six digits, then the extension.
RECURSIVE Decimal(_)
Decimal(n) == IF n < 10 THEN <<n>> ELSE Append(Decimal(n \div 10), n % 10)

ZeroPad(digits, width) ==
    IF Len(digits) >= width THEN digits
    ELSE [i \in 1..(width - Len(digits)) |-> 0] \o digits

format_file_name(id, ext) == [stem |-> ZeroPad(Decimal(id), 6), ext |-> ext]

MANIFEST_FILE_EXT == "manifest"

\* read_dir().next().is_none() on the manifests directory, CURRENT absent.
Dir_is_empty(dir) == \A n \in DOMAIN dir.files : ~dir.files[n].some

\* The open that bootstraps whenever CURRENT is absent.
Manager_open_dir_always_bootstraps(dir) ==
    LET b    == Manager_bootstrap
        name == format_file_name(b.current.val, MANIFEST_FILE_EXT)
    IN  IF ~dir.current.some
        THEN [st |-> "ok",
              dir |-> [current |-> Some(name),
                       files |-> [dir.files EXCEPT ![name] = Some(b.file)]],
              manifest |-> Some(b.manifest)]
        ELSE IF dir.current.val \in DOMAIN dir.files
                /\ dir.files[dir.current.val].some
        THEN [st |-> "ok", dir |-> dir,
              manifest |-> Some(Manifest_load_from_file(
                                    dir.files[dir.current.val].val))]
        ELSE [st |-> "err", dir |-> dir, manifest |-> None]

\* SSTableManager::open on the manifests directory dir (the content of
\* CURRENT, and of each manifest file by name): bootstrap, panic, or replay
\* of the manifest file CURRENT names.  Result: how open ended, the
\* directory it leaves and the in-memory manifest.
Manager_open_dir(dir) ==
    IF ~dir.current.some
    THEN IF Dir_is_empty(dir)
         THEN LET b    == Manager_bootstrap
                  name == format_file_name(b.current.val, MANIFEST_FILE_EXT)
              IN  [st |-> "ok",
                   dir |-> [current |-> Some(name),
                            files |-> [dir.files EXCEPT ![name] = Some(b.file)]],
                   manifest |-> Some(b.manifest)]
         ELSE [st |-> "panic", dir |-> dir, manifest |-> None]
    ELSE IF dir.current.val \in DOMAIN dir.files
            /\ dir.files[dir.current.val].some
    THEN [st |-> "ok", dir |-> dir,
          manifest |-> Some(Manifest_load_from_file(
                                dir.files[dir.current.val].val))]
    ELSE [st |-> "err", dir |-> dir, manifest |-> None]

(***************************************************************************)
(* db.rs: FrozenTables { tables, flushed }.                                *)
(***************************************************************************)
RECURSIVE Reverse(_)
Reverse(s) == IF s = <<>> THEN <<>> ELSE Append(Reverse(Tail(s)), Head(s))

\* into_iter().skip(n)
Skip(s, n) == IF n >= Len(s) THEN <<>> ELSE SubSeq(s, n + 1, Len(s))

\* FrozenTables::iter: the list without its first `flushed` tables.
FrozenTables_iter(tables, nflushed) == Skip(tables, nflushed)

FrozenTables_push(tables, t) == Append(tables, t)

\* FrozenTables::pop_front: tables.get(flushed), not removed.
FrozenTables_pop_front(tables, nflushed) ==
    IF nflushed < Len(tables) THEN Some(tables[nflushed + 1]) ELSE None

FrozenTables_mark_flushed(nflushed) == nflushed + 1

\* A compact that drops the flushed tables and leaves the counter.
FrozenTables_compact_keeps_count(tables, nflushed) ==
    [tables |-> Skip(tables, nflushed), flushed |-> nflushed]

\* FrozenTables::compact: drop `flushed` tables from the front, reset it.
FrozenTables_compact(tables, nflushed) ==
    [tables |-> Skip(tables, nflushed), flushed |-> 0]

(***************************************************************************)
(* db.rs: Database::get.                                                   *)
(***************************************************************************)
\* What a memtable hit returns: the bytes of a Data, None for a Tombstone.
ValueResult(v) == IF v.tag = "Data" THEN Some(v.bytes) ELSE None

\* The loop over imm_tables.iter().rev(): the first table with a hit decides.
RECURSIVE SearchTables(_, _)
SearchTables(ts, key) ==
    IF ts = <<>> THEN None
    ELSE LET hit == MemTable_get_latest(Head(ts), key)
         IN  IF hit.some THEN ValueResult(hit.val)
             ELSE SearchTables(Tail(ts), key)

\* Database::get that does not stop at a tombstone in the active memtable.
Database_get_past_tombstone(active, tables, nflushed, key) ==
    LET hit == MemTable_get_latest(active, key)
    IN  IF hit.some /\ hit.val.tag = "Data" THEN ValueResult(hit.val)
        ELSE SearchTables(Reverse(FrozenTables_iter(tables, nflushed)), key)

\* Database::get without the .rev(): frozen tables oldest first.
Database_get_oldest_first(active, tables, nflushed, key) ==
    LET hit == MemTable_get_latest(active, key)
    IN  IF hit.some THEN ValueResult(hit.val)
        ELSE SearchTables(FrozenTables_iter(tables, nflushed), key)

Database_get(active, tables, nflushed, key) ==
    LET hit == MemTable_get_latest(active, key)
    IN  IF hit.some THEN ValueResult(hit.val)
        ELSE SearchTables(Reverse(FrozenTables_iter(tables, nflushed)), key)

(***************************************************************************)
(* db.rs: Database::open, the replay loop and the next sequence number.    *)
(***************************************************************************)
\* One iteration of `for record in replay`.
Database_open_record(st, r, last_committed) ==
    IF r.key.sn < last_committed THEN st
    ELSE LET t1 == IF r.op = "Put" THEN MemTable_put(st.table, r.key, r.val)
                   ELSE MemTable_delete(st.table, r.key)
             mx == Max(st.max_seqno, r.key.sn)
         IN  IF MemTable_should_freeze(t1)
             THEN [table |-> MemTable_freeze(t1).active,
                   imm |-> Append(st.imm, MemTable_freeze(t1).frozen),
                   max_seqno |-> mx]
             ELSE [table |-> t1, imm |-> st.imm, max_seqno |-> mx]

RECURSIVE OpenReplayFrom(_, _, _, _)
OpenReplayFrom(recs, i, st, last_committed) ==
    IF i > Len(recs) THEN st
    ELSE OpenReplayFrom(recs, i + 1,
                        Database_open_record(st, recs[i], last_committed),
                        last_committed)

Database_open_replay(recs, last_committed) ==
    OpenReplayFrom(recs, 1,
                   [table |-> MemTable_new, imm |-> <<>>,
                    max_seqno |-> last_committed],
                   last_committed)

\* seqno: max_seqno.max(sstables.last_committed_sequence_number()) + 1
Database_open_seqno(max_seqno, last_committed) ==
    Max(max_seqno, last_committed) + 1

\* should_freeze_memtable that looks at the memtable only.
Database_should_freeze_memtable_table_only(active, w) ==
    MemTable_should_freeze(active)

\* Database::should_freeze_memtable
Database_should_freeze_memtable(active, w) ==
    MemTable_should_freeze(active) \/ w.size > WAL_MAX_SIZE

\* Database::maybe_rotate_memtable: freeze and push, or leave as is.
Database_maybe_rotate_memtable(active, tables, w) ==
    IF Database_should_freeze_memtable(active, w)
    THEN [table |-> MemTable_freeze(active).active,
          imm |-> FrozenTables_push(tables, MemTable_freeze(active).frozen)]
    ELSE [table |-> active, imm |-> tables]

(***************************************************************************)
(* State.                                                                  *)
(***************************************************************************)
VARIABLES
    phase,        \* "down": no process; "open": a Database is open
    walFile,      \* bytes of wal.log
    walSynced,    \* length of the prefix of wal.log covered by a sync_all
    wal,          \* Wal { size, len } of the open process
    table,        \* Database.table, the active memtable
    imm,          \* FrozenTables.tables
    flushed,      \* FrozenTables.flushed
    seqno,        \* Database.seqno, the next sequence number to assign
    manifest,     \* SSTableManager.active_manifest
    manifestFile, \* records of the active manifest file
    current,      \* manifests/CURRENT: None, or Some(manifest file number)
    pc,           \* the writer: "idle", or inside put/delete at "sync"/"insert"
    pend,         \* the WAL record of the put/delete in progress
    \* History variables, read by the properties only.
    nOps,         \* put/delete calls made so far
    nRuns,        \* process ends so far
    nFlushes,     \* flush attempts so far
    event,        \* the last step: "open", "open_panic", "wal_fail", "down", "step"
    last,         \* per key, the last mutation acknowledged in this run
    acked,        \* per key, what the last acknowledged mutation left
    maybe,        \* per key, what unacknowledged later mutations would leave
    maxAcked,     \* greatest seqno of an acknowledged mutation, all runs
    lastAssigned, \* seqnos assigned in this run: the last two, 0 if none
    runStart,     \* Database.seqno as open returned it
    snap,         \* memtables just before a failed WAL append
    allocated,    \* file numbers alloc_file_number returned, in order, all runs
    walRecords,   \* records Wal::append wrote in full, in order, all runs
    \* Several processes opening the same data_dir.
    procPc,       \* per process, its position in Database::open or "open"
    fileLocks,    \* per lock file, the processes holding its exclusive lock
    procOpens,    \* per process, the opens it has begun
    flushThreads, \* per Database, its flush thread: "none", "running", "parked"
    \* The flush worker in the steps of its code.
    worker,       \* where the worker is, the table it flushes, its file number
    manifestSynced, \* length of the prefix of the manifest covered by a sync_all
    pushed,       \* tables pushed onto the frozen queue in this run, in order
    sstables,     \* the sstables directory: per file number, the file
    \* The threads that share the frozen queue.
    tablesPtr,    \* which Arc FrozenTables.tables holds: the swaps so far
    writer,       \* the writer inside maybe_rotate_memtable
    parkToken,    \* the park token of the flush thread
    \* A function of the code called on its own.
    input,        \* the arguments of the call
    output,       \* what the call returned, once it has
    \* History kept for the properties of the WAL and of recovery.
    ackedRecords, \* the records of the calls that returned Ok, in call order
    opened,       \* the WAL, next seqno and get results at the last two opens
    \* Other threads and calls, each used by one specification.
    reader,       \* a reader inside FrozenTables::iter
    boot,         \* SSTableManager::open in the steps of its bootstrap
    oneshot       \* the one-shot channel with its sender and its receiver

vars == <<phase, walFile, walSynced, wal, table, imm, flushed, seqno, manifest,
          manifestFile, current, pc, pend, nOps, nRuns, nFlushes, event, last,
          acked, maybe, maxAcked, lastAssigned, runStart, snap, allocated,
          walRecords, procPc, fileLocks, procOpens, flushThreads, worker,
          manifestSynced,
          pushed, sstables, tablesPtr, writer, parkToken, input, output,
          ackedRecords, opened, reader, boot, oneshot>>

lockVars == <<procPc, fileLocks, procOpens, flushThreads>>
threadVars == <<tablesPtr, writer, parkToken>>
flushVars == <<worker, manifestSynced, pushed, sstables, threadVars>>
fnVars == <<input, output>>
histVars == <<ackedRecords, opened>>
extVars == <<reader, boot, oneshot>>
auxVars == <<lockVars, flushVars, fnVars, histVars, extVars>>
dbVars == <<phase, walFile, walSynced, wal, table, imm, flushed, seqno, manifest,
           manifestFile, current, pc, pend, nOps, nRuns, nFlushes, event, last,
           acked, maybe, maxAcked, lastAssigned, runStart, snap, allocated,
           walRecords>>
diskVars == <<walFile, walSynced, manifestFile, current>>
memVars == <<wal, table, imm, flushed, seqno, manifest, pc, pend>>
boundVars == <<nOps, nRuns, nFlushes>>

NoRecord == WalDelete(Key_new(<<>>, 0))
NoSnap == [table |-> MemTable_new, imm |-> <<>>, flushed |-> 0]
Unknown == [st |-> "unknown", val |-> None]

\* What get must return for the key of record r once r is applied.
RecordResult(r) == IF r.op = "Put" THEN Some(r.val) ELSE None

Procs == 1..NumProcs
LockFiles == {"wal.log", "CURRENT", "manifest"}

\* Where a process is in Database::open: not in it, holding the lock on a
\* file, waiting inside File::lock on a file, or open with all three locks.
Closed == [st |-> "closed", file |-> ""]
Locked(f) == [st |-> "locked", file |-> f]
Blocked(f) == [st |-> "blocked", file |-> f]
Opened == [st |-> "open", file |-> ""]

LockInit ==
    /\ procPc = [p \in Procs |-> Closed]
    /\ fileLocks = [f \in LockFiles |-> {}]
    /\ procOpens = [p \in Procs |-> 0]
    /\ flushThreads = [p \in Procs |-> "none"]

\* The writer outside maybe_rotate_memtable.
WriterIdle == [at |-> "idle"]

\* The worker between two tables: parked, or about to call pop_front.
WorkerIdle == [at |-> "idle", table |-> MemTable_new, fileno |-> 0]

FlushInit ==
    /\ worker = WorkerIdle
    /\ manifestSynced = 0
    /\ pushed = <<>>
    /\ sstables = [x \in {} |-> 0]
    /\ tablesPtr = 0
    /\ writer = WriterIdle
    /\ parkToken = FALSE

\* No call made yet, and the value a call returns.
NoOutput == [done |-> FALSE]
Returned(v) == [done |-> TRUE, val |-> v]

\* No open yet.
NeverOpened ==
    [some |-> FALSE, walFile |-> <<>>, seqno |-> 0,
     gets |-> [k \in UserKeys |-> None]]

HistInit ==
    /\ ackedRecords = <<>>
    /\ opened = [cur |-> NeverOpened, prev |-> NeverOpened]

\* No reader in iter, no bootstrap under way, no channel made.
ReaderIdle == [at |-> "idle"]
BootIdle == [at |-> "idle"]
NoChannel == [at |-> "none"]

ExtInit ==
    /\ reader = ReaderIdle
    /\ boot = BootIdle
    /\ oneshot = NoChannel

AuxInit ==
    /\ LockInit
    /\ FlushInit
    /\ HistInit
    /\ ExtInit
    /\ input = <<>>
    /\ output = NoOutput

DbInit ==
    /\ phase = "down"
    /\ walFile = <<>>
    /\ walSynced = 0
    /\ wal = [size |-> 0, len |-> 0]
    /\ table = MemTable_new
    /\ imm = <<>>
    /\ flushed = 0
    /\ seqno = 0
    /\ manifest = Manifest_new
    /\ manifestFile = <<>>
    /\ current = None
    /\ pc = "idle"
    /\ pend = NoRecord
    /\ nOps = 0
    /\ nRuns = 0
    /\ nFlushes = 0
    /\ event = "init"
    /\ last = [k \in UserKeys |-> Unknown]
    /\ acked = [k \in UserKeys |-> None]
    /\ maybe = [k \in UserKeys |-> {}]
    /\ maxAcked = 0
    /\ lastAssigned = <<0, 0>>
    /\ runStart = 0
    /\ snap = NoSnap
    /\ allocated = <<>>
    /\ walRecords = <<>>

Init == AuxInit /\ DbInit

\* The state around a function called on its own: no database open.
FnInit ==
    LockInit /\ FlushInit /\ HistInit /\ ExtInit /\ DbInit /\ output = NoOutput

(***************************************************************************)
(* Database::open.                                                         *)
(***************************************************************************)
\* SSTableManager::open: bootstrap when CURRENT is absent, else replay the
\* manifest file CURRENT names.
Manager_open ==
    IF ~current.some
    THEN Manager_bootstrap
    ELSE [current |-> current,
          manifest |-> Manifest_load_from_file(manifestFile),
          file |-> manifestFile]

\* Wal::new followed by Database::open.  read_stats and replay decode the
\* same bytes; an undecodable record panics before anything is built.
Database_open ==
    /\ phase = "down"
    /\ \E rp \in {Wal_replay(walFile)}, mgr \in {Manager_open} :
        /\ rp.st = "ok"
        /\ \E st \in {Database_open_replay(
                          rp.recs, mgr.manifest.last_committed_sequence_number)} :
            /\ wal' = [size |-> Len(walFile), len |-> Len(rp.recs)]
            /\ table' = st.table
            /\ imm' = st.imm
            /\ seqno' = Database_open_seqno(
                             st.max_seqno,
                             mgr.manifest.last_committed_sequence_number)
            /\ runStart' = seqno'
        /\ manifest' = mgr.manifest
        /\ manifestFile' = mgr.file
        /\ current' = mgr.current
        /\ allocated' = IF current.some THEN allocated
                        ELSE Append(allocated, mgr.current.val)
    /\ phase' = "open"
    /\ flushed' = 0
    /\ pc' = "idle"
    /\ pend' = NoRecord
    /\ event' = "open"
    /\ snap' = NoSnap
    /\ UNCHANGED <<walFile, walSynced, boundVars, last, acked, maybe, maxAcked,
                   lastAssigned, walRecords>>

Open == Database_open /\ UNCHANGED auxVars

\* Open on a WAL that does not decode: panic "Invalid WAL record".
OpenPanic ==
    /\ phase = "down"
    /\ UNCHANGED auxVars
    /\ Wal_replay(walFile).st = "panic"
    /\ event # "open_panic"
    /\ event' = "open_panic"
    /\ UNCHANGED <<phase, diskVars, memVars, boundVars, last, acked, maybe,
                   maxAcked, lastAssigned, runStart, snap, allocated, walRecords>>

(***************************************************************************)
(* Database::put and Database::delete, in the steps of their code:         *)
(* seqno.next() and the write of Wal::append, the sync_all of Wal::append, *)
(* then the memtable insert with maybe_rotate_memtable and the return.     *)
(***************************************************************************)
\* SeqNo::next: returns the current value and increments.
SeqNo_next(s) == [cur |-> s, next |-> s + 1]

\* A Wal::append that writes to a file it has emptied first.
Wal_append_write_truncating(file, w, r) ==
    [file |-> EncodeWalRecord(r),
     wal |-> [size |-> Len(EncodeWalRecord(r)), len |-> 1]]

\* Wal::append up to its flush: the write, then the size and len counters.
Wal_append_write(file, w, r) ==
    [file |-> file \o EncodeWalRecord(r),
     wal |-> [size |-> w.size + Len(EncodeWalRecord(r)), len |-> w.len + 1]]

\* Wal::flush without the sync_all: nothing more is covered.
Wal_flush_no_sync(file, synced) == synced

\* Wal::flush: sync_all covers everything written so far.
Wal_flush(file, synced) == Len(file)

Assign(r) ==
    /\ seqno' = SeqNo_next(seqno).next
    /\ lastAssigned' = <<lastAssigned[2], r.key.sn>>
    /\ nOps' = nOps + 1

Append_step(r) ==
    /\ phase = "open"
    /\ UNCHANGED auxVars
    /\ pc = "idle"
    /\ nOps < MaxOps
    /\ Assign(r)
    /\ walFile' = Wal_append_write(walFile, wal, r).file
    /\ wal' = Wal_append_write(walFile, wal, r).wal
    /\ pc' = "sync"
    /\ pend' = r
    /\ walRecords' = Append(walRecords, r)
    /\ event' = "step"
    /\ UNCHANGED <<phase, walSynced, manifestFile, current, table, imm, flushed,
                   manifest, nRuns, nFlushes, last, acked, maybe, maxAcked,
                   runStart, snap, allocated>>

Put_append ==
    \E k \in UserKeys, v \in UserVals :
        Append_step(WalPut(Key_new(k, SeqNo_next(seqno).cur), v))

Delete_append ==
    \E k \in UserKeys :
        Append_step(WalDelete(Key_new(k, SeqNo_next(seqno).cur)))

Wal_sync ==
    /\ phase = "open"
    /\ UNCHANGED auxVars
    /\ pc = "sync"
    /\ walSynced' = Wal_flush(walFile, walSynced)
    /\ pc' = "insert"
    /\ event' = "step"
    /\ UNCHANGED <<phase, walFile, manifestFile, current, wal, table, imm,
                   flushed, seqno, manifest, pend, boundVars, last, acked, maybe,
                   maxAcked, lastAssigned, runStart, snap, allocated, walRecords>>

\* The memtable mutation of put or delete.
Database_apply(active, r) ==
    IF r.op = "Put" THEN MemTable_put(active, r.key, r.val)
    ELSE MemTable_delete(active, r.key)

Database_insert(op) ==
    /\ phase = "open"
    /\ pc = "insert"
    /\ pend.op = op
    /\ \E rot \in {Database_maybe_rotate_memtable(
                        Database_apply(table, pend), imm, wal)} :
        /\ table' = rot.table
        /\ imm' = rot.imm
    /\ pc' = "idle"
    /\ pend' = NoRecord
    /\ event' = "step"
    /\ last' = [last EXCEPT ![pend.key.uk] =
                   [st |-> pend.op, val |-> RecordResult(pend)]]
    /\ acked' = [acked EXCEPT ![pend.key.uk] = RecordResult(pend)]
    /\ maybe' = [maybe EXCEPT ![pend.key.uk] = {}]
    /\ maxAcked' = Max(maxAcked, pend.key.sn)
    /\ UNCHANGED <<phase, diskVars, wal, flushed, seqno, manifest, boundVars,
                   lastAssigned, runStart, snap, allocated, walRecords>>

Insert_step(op) == Database_insert(op) /\ UNCHANGED auxVars

Put_insert == Insert_step("Put")

Delete_insert == Insert_step("Delete")

(***************************************************************************)
(* The process ends: killed, closed, or panicking out of Wal::append.      *)
(* Nothing in memory survives; the files keep every byte written.          *)
(***************************************************************************)
Down(ev) ==
    /\ phase' = "down"
    /\ wal' = [size |-> 0, len |-> 0]
    /\ table' = MemTable_new
    /\ imm' = <<>>
    /\ flushed' = 0
    /\ seqno' = 0
    /\ manifest' = Manifest_new
    /\ pc' = "idle"
    /\ pend' = NoRecord
    /\ last' = [k \in UserKeys |-> Unknown]
    /\ lastAssigned' = <<0, 0>>
    /\ runStart' = 0
    /\ nRuns' = nRuns + 1
    /\ event' = ev

\* The mutation of record r was issued and its call never returned success.
Unacked(r) == [maybe EXCEPT ![r.key.uk] = @ \cup {RecordResult(r)}]

\* The process is killed between two steps of the writer.
Kill ==
    /\ phase = "open"
    /\ UNCHANGED auxVars
    /\ nRuns < MaxRuns
    /\ Down("down")
    /\ maybe' = IF pc = "idle" THEN maybe ELSE Unacked(pend)
    /\ UNCHANGED <<diskVars, nOps, nFlushes, acked, maxAcked, snap, allocated,
                   walRecords>>

\* Drop for Wal: flush, then unlock.  The other fields are just dropped.
Close ==
    /\ phase = "open"
    /\ UNCHANGED auxVars
    /\ pc = "idle"
    /\ nRuns < MaxRuns
    /\ Down("down")
    /\ walSynced' = Wal_flush(walFile, walSynced)
    /\ UNCHANGED <<walFile, manifestFile, current, nOps, nFlushes, acked, maybe,
                   maxAcked, snap, allocated, walRecords>>

\* The records a put or delete call can be about to append.
NextRecords ==
    {WalPut(Key_new(k, SeqNo_next(seqno).cur), v) : k \in UserKeys, v \in UserVals}
        \cup {WalDelete(Key_new(k, SeqNo_next(seqno).cur)) : k \in UserKeys}

\* The process is killed inside the write of Wal::append: the file keeps a
\* proper prefix of the record's bytes.
Kill_in_append ==
    /\ phase = "open"
    /\ UNCHANGED auxVars
    /\ pc = "idle"
    /\ nOps < MaxOps
    /\ nRuns < MaxRuns
    /\ \E r \in NextRecords :
       \E enc \in {EncodeWalRecord(r)} :
       \E n \in 0..(Len(enc) - 1) :
           /\ walFile' = walFile \o SubSeq(enc, 1, n)
           /\ maybe' = Unacked(r)
    /\ nOps' = nOps + 1
    /\ Down("down")
    /\ UNCHANGED <<walSynced, manifestFile, current, nFlushes, acked, maxAcked,
                   snap, allocated, walRecords>>

\* Wal::append fails: the write after n bytes, or the sync_all after the
\* whole record.  Both are `expect`s: the call panics out of put/delete and
\* the unwinding drops the Database.  The sync Wal::drop then attempts can
\* fail as the append did, so the bytes written are not counted as synced.
Wal_append_fail ==
    /\ phase = "open"
    /\ UNCHANGED auxVars
    /\ pc = "idle"
    /\ nOps < MaxOps
    /\ nRuns < MaxRuns
    /\ \E r \in NextRecords :
       \E enc \in {EncodeWalRecord(r)} :
       \E n \in 0..Len(enc) :
           /\ walFile' = walFile \o SubSeq(enc, 1, n)
           /\ walRecords' = IF n = Len(enc)
                            THEN Append(walRecords, r) ELSE walRecords
           /\ maybe' = Unacked(r)
    /\ snap' = [table |-> table, imm |-> imm, flushed |-> flushed]
    /\ nOps' = nOps + 1
    /\ Down("wal_fail")
    /\ UNCHANGED <<walSynced, manifestFile, current, nFlushes, acked, maxAcked,
                   allocated>>

(***************************************************************************)
(* The flush worker.                                                       *)
(***************************************************************************)
\* The FileMeta finalize_sstable records: the file number and the first and
\* last key written (file sizes are not modelled here).
FileMeta(file_no, t) ==
    [file_number |-> file_no,
     smallest_key |-> t.data[1].key,
     largest_key |-> t.data[Len(t.data)].key]

\* flush_memtable that also commits the flushed records: SetLastSeqNo past
\* the largest sequence number of the table.
Manager_flush_memtable_commits(m, file, t) ==
    LET a   == Manager_alloc_file_number(m, file)
        rec == RecCreateFile(0, FileMeta(a.fileno, t))
        set == RecSetLastSeqNo(t.data[Len(t.data)].key.sn + 1)
    IN  [fileno |-> a.fileno,
         manifest |-> Manager_apply_record(
                          Manager_apply_record(a.manifest, rec), set),
         file |-> Append(Append(a.file, rec), set)]

\* flush_memtable on one frozen table: allocate a file number, write the
\* SSTable, append its CreateFile record and sync.
Manager_flush_memtable(m, file, t) ==
    LET a   == Manager_alloc_file_number(m, file)
        rec == RecCreateFile(0, FileMeta(a.fileno, t))
    IN  [fileno |-> a.fileno,
         manifest |-> Manager_apply_record(a.manifest, rec),
         file |-> Append(a.file, rec)]

\* One turn of the worker's loop on a table pop_front returns: flush it and,
\* the flush having succeeded, mark it flushed.
Flush_step ==
    /\ phase = "open"
    /\ UNCHANGED auxVars
    /\ nFlushes < MaxFlushes
    /\ FrozenTables_pop_front(imm, flushed).some
    /\ \E f \in {Manager_flush_memtable(
                      manifest, manifestFile,
                      FrozenTables_pop_front(imm, flushed).val)} :
        /\ manifest' = f.manifest
        /\ manifestFile' = f.file
        /\ allocated' = Append(allocated, f.fileno)
    /\ flushed' = FrozenTables_mark_flushed(flushed)
    /\ nFlushes' = nFlushes + 1
    /\ event' = "step"
    /\ UNCHANGED <<phase, walFile, walSynced, current, wal, table, imm, seqno,
                   pc, pend, nOps, nRuns, last, acked, maybe, maxAcked,
                   lastAssigned, runStart, snap, walRecords>>

\* FrozenTables::compact, run by the worker between flushes.
Compact_step ==
    /\ phase = "open"
    /\ UNCHANGED auxVars
    /\ flushed > 0
    /\ imm' = FrozenTables_compact(imm, flushed).tables
    /\ flushed' = FrozenTables_compact(imm, flushed).flushed
    /\ event' = "step"
    /\ UNCHANGED <<phase, diskVars, wal, table, seqno, manifest, pc, pend,
                   boundVars, last, acked, maybe, maxAcked, lastAssigned,
                   runStart, snap, allocated, walRecords>>

Next ==
    \/ Open
    \/ OpenPanic
    \/ Put_append
    \/ Delete_append
    \/ Wal_sync
    \/ Put_insert
    \/ Delete_insert
    \/ Kill
    \/ Close
    \/ Kill_in_append
    \/ Wal_append_fail
    \/ Flush_step
    \/ Compact_step

Spec == Init /\ [][Next]_vars

(***************************************************************************)
(* Properties of the write path, the reader and recovery.                  *)
(***************************************************************************)
\* What Database::get returns for key k in the current state.  get takes
\* &self and put/delete take &mut self, so it runs only between two calls.
Get(k) == Database_get(table, imm, flushed, k)

CanGet == phase = "open" /\ pc = "idle"

\* C1: after a successful put(K, V) with no later put or delete of K,
\* get(K) returns Some(V) in every later state of the run, whatever other
\* mutations, freezes, flushes and compactions happened since.
C1_GetAfterPut ==
    CanGet => \A k \in UserKeys : last[k].st = "Put" => Get(k) = last[k].val

Unflushed == (flushed + 1)..Len(imm)

C3_Recovery ==
    event = "open" => \A k \in UserKeys : Get(k) \in {acked[k]} \cup maybe[k]

\* The WAL record of a memtable entry.
EntryRecord(e) ==
    IF e.val.tag = "Data" THEN WalPut(e.key, e.val.bytes) ELSE WalDelete(e.key)

\* The bytes of e's record lie in the first `upto` bytes of wal.log.
InWal(e, upto) ==
    \E enc \in {EncodeWalRecord(EntryRecord(e))} :
        \E i \in 1..upto :
            /\ i + Len(enc) - 1 <= upto
            /\ SubSeq(walFile, i, i + Len(enc) - 1) = enc

TableEntries(t) == {t.data[i] : i \in 1..Len(t.data)}

\* The entries of every memtable, active or frozen.
AllEntries ==
    TableEntries(table) \cup UNION {TableEntries(imm[i]) : i \in 1..Len(imm)}

\* C4 as stated: no memtable ever holds an entry whose WAL record is not
\* covered by an fsync.
C4_AllEntriesSynced == \A e \in AllEntries : InWal(e, walSynced)

\* C4, amended: an entry inserted by a put or delete of this run (its seqno
\* is at least the one open returned) has its WAL record fsynced; an entry
\* rebuilt by replay has its record in the file, fsynced or not.
C4_InsertedEntriesSynced ==
    \A e \in AllEntries :
        IF e.key.sn >= runStart THEN InWal(e, walSynced)
        ELSE InWal(e, Len(walFile))

\* C4's case: a memtable holds an entry inserted by a put or delete of this
\* run, next to one rebuilt by replay.
C4_Witness ==
    /\ phase = "open"
    /\ \E e \in AllEntries : e.key.sn >= runStart
    /\ \E e \in AllEntries : e.key.sn < runStart

\* C5: a failed WAL append or fsync returns an error to the caller and
\* leaves the database as it was: still open, same memtables, same reads.
C5_FailedAppendReturnsError ==
    event = "wal_fail" =>
        /\ phase = "open"
        /\ table = snap.table
        /\ imm = snap.imm
        /\ \A k \in UserKeys :
               Get(k) = Database_get(snap.table, snap.imm, snap.flushed, k)

\* Some entry of t has user key k.
HasVersion(t, k) == \E e \in TableEntries(t) : e.key.uk = k

\* The value of the entry of t with the greatest seqno for user key k.
NewestVersion(t, k) ==
    (CHOOSE e \in TableEntries(t) :
        /\ e.key.uk = k
        /\ \A o \in TableEntries(t) : o.key.uk = k => o.key.sn <= e.key.sn).val

\* The result the first table holding any version of k decides: the active
\* memtable, else the most recently frozen table in the reader's view.
FirstHit(k) ==
    IF HasVersion(table, k) THEN ValueResult(NewestVersion(table, k))
    ELSE IF \E i \in Unflushed : HasVersion(imm[i], k)
    THEN LET j == CHOOSE i \in Unflushed :
                      /\ HasVersion(imm[i], k)
                      /\ \A o \in Unflushed : HasVersion(imm[o], k) => o <= i
         IN  ValueResult(NewestVersion(imm[j], k))
    ELSE None

\* C6: get(K) is decided by the first table holding any version of K, the
\* active memtable first, then the frozen ones from newest to oldest; a
\* tombstone there gives None without looking further.
C6_FirstHitWins == \A k \in UserKeys : Get(k) = FirstHit(k)

\* C6's case: two frozen tables in the reader's view hold different
\* versions of K, and none is in the active memtable.
C6_Witness ==
    /\ CanGet
    /\ \E k \in UserKeys :
        /\ ~HasVersion(table, k)
        /\ \E i \in Unflushed, j \in Unflushed :
               /\ i < j
               /\ HasVersion(imm[i], k)
               /\ HasVersion(imm[j], k)
               /\ NewestVersion(imm[i], k) # NewestVersion(imm[j], k)
               /\ Get(k) = ValueResult(NewestVersion(imm[j], k))

\* C7: the seqnos assigned in one run go up by one, and the next seqno to
\* assign is greater than that of every mutation acknowledged so far, in
\* this run or an earlier one.
C7_SeqNoIncreasing ==
    /\ lastAssigned[1] # 0 => lastAssigned[2] = lastAssigned[1] + 1
    /\ phase = "open" => seqno > maxAcked

\* C8: after open, the next seqno to assign is greater than the seqno of
\* every record appended to the WAL, replayed or skipped, and greater than
\* the manifest's last_committed_sequence_number.
C8_NextSeqNoAboveWal ==
    event = "open" =>
        /\ \A i \in 1..Len(walRecords) : seqno > walRecords[i].key.sn
        /\ seqno > manifest.last_committed_sequence_number

(***************************************************************************)
(* The SSTable manager on its own: a manifest that is opened, appended to  *)
(* and opened again.                                                       *)
(***************************************************************************)
notManifestVars ==
    <<walFile, walSynced, wal, table, imm, flushed, seqno, pc, pend, nOps,
      nFlushes, event, last, acked, maybe, maxAcked, lastAssigned, runStart,
      snap, walRecords, auxVars>>

\* SSTableManager::open on an empty data_dir.
SSTableManager_open ==
    /\ phase = "down"
    /\ ~current.some
    /\ phase' = "open"
    /\ manifest' = Manager_open.manifest
    /\ manifestFile' = Manager_open.file
    /\ current' = Manager_open.current
    /\ allocated' = Append(allocated, Manager_open.current.val)
    /\ UNCHANGED <<nRuns, notManifestVars>>

\* The manager is dropped, or the process killed, and SSTableManager::open
\* replays the manifest file CURRENT names.
SSTableManager_reopen ==
    /\ phase = "open"
    /\ nRuns < MaxRuns
    /\ manifest' = Manager_open.manifest
    /\ nRuns' = nRuns + 1
    /\ UNCHANGED <<phase, manifestFile, current, allocated, notManifestVars>>

SSTableManager_alloc_file_number ==
    /\ phase = "open"
    /\ Len(manifestFile) < MaxManifestRecords
    /\ LET a == Manager_alloc_file_number(manifest, manifestFile)
       IN  /\ manifest' = a.manifest
           /\ manifestFile' = a.file
           /\ allocated' = Append(allocated, a.fileno)
    /\ UNCHANGED <<phase, current, nRuns, notManifestVars>>

\* The frozen tables handed to flush_memtable: one put of each user key.
FlushTables ==
    {MemTable_freeze(MemTable_put(MemTable_new, Key_new(k, 1), <<3>>)).frozen :
        k \in UserKeys}

SSTableManager_flush_memtable ==
    /\ phase = "open"
    /\ Len(manifestFile) + 2 <= MaxManifestRecords
    /\ \E t \in FlushTables :
        LET f == Manager_flush_memtable(manifest, manifestFile, t)
        IN  /\ manifest' = f.manifest
            /\ manifestFile' = f.file
            /\ allocated' = Append(allocated, f.fileno)
    /\ UNCHANGED <<phase, current, nRuns, notManifestVars>>

\* append_record(SetLastSeqNo(n)): the worker's bump of the committed seqno.
SSTableManager_set_last_seqno ==
    /\ phase = "open"
    /\ Len(manifestFile) < MaxManifestRecords
    /\ \E n \in 0..MaxCommitted :
        /\ manifest' = Manager_apply_record(manifest, RecSetLastSeqNo(n))
        /\ manifestFile' = Append(manifestFile, RecSetLastSeqNo(n))
    /\ UNCHANGED <<phase, current, nRuns, allocated, notManifestVars>>

NextManifest ==
    \/ SSTableManager_open
    \/ SSTableManager_reopen
    \/ SSTableManager_alloc_file_number
    \/ SSTableManager_flush_memtable
    \/ SSTableManager_set_last_seqno

SpecManifest == Init /\ [][NextManifest]_vars

\* C9: next_file_number is greater than every file number alloc_file_number
\* has returned for this database, also right after the manifest is rebuilt
\* by replay; so no file number is returned twice.
C9_FileNumbersNeverReused ==
    /\ phase = "open" =>
           \A i \in 1..Len(allocated) : manifest.next_file_number > allocated[i]
    /\ \A i, j \in 1..Len(allocated) : i # j => allocated[i] # allocated[j]

\* C10: last_committed_sequence_number never decreases, neither when a
\* SetLastSeqNo record is appended nor when the manifest is rebuilt by
\* replay, whatever values the records carry.
C10_LastCommittedNeverDecreases ==
    [][manifest'.last_committed_sequence_number
           >= manifest.last_committed_sequence_number]_vars

\* C23: the manifest load_from_file rebuilds from the records appended so
\* far is the manifest the appending manager holds in memory: the same
\* next_file_number, last_committed_sequence_number and files per level.
C23_ReplayEqualsInMemory ==
    phase = "open" => Manifest_load_from_file(manifestFile) = manifest

(***************************************************************************)
(* Several processes on one data_dir: the locks Database::open takes, in   *)
(* its order: wal.log in Wal::new, then CURRENT and the active manifest in *)
(* SSTableManager::open.  File::lock blocks until the lock is free.        *)
(***************************************************************************)
\* The call the process makes next: the file it locks and where that leads.
NextLock(at) ==
    IF at = Closed THEN [file |-> "wal.log", then |-> Locked("wal.log")]
    ELSE IF at = Locked("wal.log")
    THEN [file |-> "CURRENT", then |-> Locked("CURRENT")]
    ELSE [file |-> "manifest", then |-> Opened]

\* File::lock when the call is made: taken if free, else the caller waits.
File_lock(p, f, then) ==
    IF fileLocks[f] = {}
    THEN /\ fileLocks' = [fileLocks EXCEPT ![f] = {p}]
         /\ procPc' = [procPc EXCEPT ![p] = then]
    ELSE /\ procPc' = [procPc EXCEPT ![p] = Blocked(f)]
         /\ UNCHANGED fileLocks

\* Database::open begins: Wal::new locks wal.log.
Proc_open(p) ==
    /\ procPc[p] = Closed
    /\ procOpens[p] < MaxOpens
    /\ procOpens' = [procOpens EXCEPT ![p] = @ + 1]
    /\ File_lock(p, NextLock(Closed).file, NextLock(Closed).then)
    /\ UNCHANGED <<flushThreads, dbVars, flushVars, fnVars, histVars, extVars>>

\* SSTableManager::open locks CURRENT, then the manifest CURRENT names.
Proc_lock_next(p) ==
    /\ procPc[p].st = "locked"
    /\ File_lock(p, NextLock(procPc[p]).file, NextLock(procPc[p]).then)
    /\ UNCHANGED <<procOpens, flushThreads, dbVars, flushVars, fnVars,
                   histVars, extVars>>

\* A waiting File::lock returns once the holder has let go.
Proc_lock_granted(p) ==
    /\ procPc[p].st = "blocked"
    /\ fileLocks[procPc[p].file] = {}
    /\ fileLocks' = [fileLocks EXCEPT ![procPc[p].file] = {p}]
    /\ procPc' = [procPc EXCEPT ![p] =
                     IF procPc[p].file = "manifest" THEN Opened
                     ELSE Locked(procPc[p].file)]
    /\ UNCHANGED <<procOpens, flushThreads, dbVars, flushVars, fnVars,
                   histVars, extVars>>

\* Drop for Wal and Drop for SSTableManager unlock; so does the end of the
\* process, wherever it is.
Proc_close(p) ==
    /\ procPc[p] # Closed
    /\ fileLocks' = [f \in LockFiles |-> fileLocks[f] \ {p}]
    /\ procPc' = [procPc EXCEPT ![p] = Closed]
    /\ UNCHANGED <<procOpens, flushThreads, dbVars, flushVars, fnVars,
                   histVars, extVars>>

NextLocks ==
    \E p \in Procs :
        \/ Proc_open(p)
        \/ Proc_lock_next(p)
        \/ Proc_lock_granted(p)
        \/ Proc_close(p)

SpecLocks == Init /\ [][NextLocks]_vars

\* C11: a second open on a data_dir another instance has open fails with a
\* lock error instead of waiting or succeeding; the first instance keeps
\* its locks, and no lock file ever has two holders.
C11_SecondOpenFails ==
    /\ \A f \in LockFiles : Cardinality(fileLocks[f]) <= 1
    /\ \A p \in Procs :
           procPc[p] = Opened => \A f \in LockFiles : p \in fileLocks[f]
    /\ \A p, q \in Procs : procPc[q] = Opened => procPc[p].st # "blocked"

\* C12: freezing is atomic for readers.  A put or delete that was at its
\* memtable insert and has returned (the states before and after are those
\* a get can observe, get taking &self and put/delete &mut self) leaves the
\* entries of the memtable either all in the active memtable, or all in one
\* new frozen table at the back of the queue with the active memtable empty
\* and of size 0: none lost, none in both.
C12_FreezeAtomic ==
    [][(phase = "open" /\ pc = "insert" /\ pc' = "idle" /\ phase' = "open") =>
          LET t == Database_apply(table, pend)
          IN  \/ table' = t /\ imm' = imm
              \/ /\ table' = [data |-> <<>>, size |-> 0]
                 /\ imm' = Append(imm, t)]_vars

\* C12's case: a put or delete of this run froze a memtable of two entries;
\* they are in the last frozen table and the active memtable is empty.
C12_Witness ==
    /\ CanGet
    /\ table = [data |-> <<>>, size |-> 0]
    /\ imm # <<>>
    /\ Len(imm[Len(imm)].data) >= 2
    /\ \E k \in UserKeys :
           /\ last[k].st # "unknown"
           /\ HasVersion(imm[Len(imm)], k)
           /\ Get(k) = last[k].val

(***************************************************************************)
(* The flush worker in the steps of its code, beside the writer: pop_front, *)
(* alloc_file_number, the SSTable write with finalize_sstable's CreateFile  *)
(* append, the manifest sync, mark_flushed, and compact.                    *)
(***************************************************************************)
\* Database::open with the worker spawned: bootstrap has synced the manifest
\* file, and the replay loop has pushed the tables it froze.
Flush_open ==
    /\ Database_open
    /\ worker' = WorkerIdle
    /\ manifestSynced' = Manager_sync(manifestFile', manifestSynced)
    /\ pushed' = imm'
    /\ UNCHANGED <<lockVars, fnVars, histVars, extVars, sstables, threadVars>>

\* The memtable insert of put/delete; a rotation pushes the frozen table.
Flush_insert(op) ==
    /\ Database_insert(op)
    /\ pushed' = IF Len(imm') > Len(imm)
                 THEN Append(pushed, imm'[Len(imm')])
                 ELSE pushed
    /\ UNCHANGED <<lockVars, fnVars, histVars, extVars, worker, manifestSynced,
                   sstables, threadVars>>

Flush_put_insert == Flush_insert("Put")

Flush_delete_insert == Flush_insert("Delete")

workerUnchanged == <<phase, walFile, walSynced, current, wal, table, seqno,
                     pc, pend, nOps, nRuns, last, acked, maybe, maxAcked,
                     lastAssigned, runStart, snap, walRecords, lockVars,
                     fnVars, histVars, extVars, pushed, sstables, threadVars>>

\* pop_front returned a table; flush_memtable begins: alloc_file_number
\* appends AllocFileNumber and syncs.
Worker_alloc ==
    /\ phase = "open"
    /\ worker.at = "idle"
    /\ nFlushes < MaxFlushes
    /\ FrozenTables_pop_front(imm, flushed).some
    /\ \E a \in {Manager_alloc_file_number(manifest, manifestFile)} :
        /\ manifest' = a.manifest
        /\ manifestFile' = a.file
        /\ manifestSynced' = Manager_sync(a.file, manifestSynced)
        /\ allocated' = Append(allocated, a.fileno)
        /\ worker' = [at |-> "write",
                      table |-> FrozenTables_pop_front(imm, flushed).val,
                      fileno |-> a.fileno]
    /\ nFlushes' = nFlushes + 1
    /\ event' = "step"
    /\ UNCHANGED <<workerUnchanged, imm, flushed>>

\* finalize_sstable: the SSTable is written and synced, then CreateFile is
\* appended to the manifest.
Worker_create_file ==
    /\ phase = "open"
    /\ worker.at = "write"
    /\ \E rec \in {RecCreateFile(0, FileMeta(worker.fileno, worker.table))} :
        /\ manifest' = Manager_apply_record(manifest, rec)
        /\ manifestFile' = Append(manifestFile, rec)
    /\ worker' = [worker EXCEPT !.at = "sync"]
    /\ event' = "step"
    /\ UNCHANGED <<workerUnchanged, imm, flushed, manifestSynced, allocated,
                   nFlushes>>

\* finalize_sstable: self.sync() after the append; flush_memtable returns Ok.
Worker_sync ==
    /\ phase = "open"
    /\ worker.at = "sync"
    /\ manifestSynced' = Manager_sync(manifestFile, manifestSynced)
    /\ worker' = [worker EXCEPT !.at = "mark"]
    /\ event' = "step"
    /\ UNCHANGED <<workerUnchanged, imm, flushed, manifest, manifestFile,
                   allocated, nFlushes>>

\* flush_memtable returns Err (file I/O, manifest append or sync failed):
\* the worker logs it and loops; the table stays pending.
Worker_flush_failed ==
    /\ phase = "open"
    /\ worker.at \in {"write", "sync"}
    /\ worker' = WorkerIdle
    /\ event' = "step"
    /\ UNCHANGED <<workerUnchanged, imm, flushed, manifest, manifestFile,
                   manifestSynced, allocated, nFlushes>>

\* On success the worker marks the front flushed.
Worker_mark_flushed ==
    /\ phase = "open"
    /\ worker.at = "mark"
    /\ flushed' = FrozenTables_mark_flushed(flushed)
    /\ worker' = WorkerIdle
    /\ event' = "step"
    /\ UNCHANGED <<workerUnchanged, imm, manifest, manifestFile,
                   manifestSynced, allocated, nFlushes>>

\* FrozenTables::compact, run by the worker between flushes.
Worker_compact ==
    /\ phase = "open"
    /\ worker.at = "idle"
    /\ flushed > 0
    /\ imm' = FrozenTables_compact(imm, flushed).tables
    /\ flushed' = FrozenTables_compact(imm, flushed).flushed
    /\ event' = "step"
    /\ UNCHANGED <<workerUnchanged, worker, manifest, manifestFile,
                   manifestSynced, allocated, nFlushes>>

NextFlush ==
    \/ Flush_open
    \/ Put_append
    \/ Delete_append
    \/ Wal_sync
    \/ Flush_put_insert
    \/ Flush_delete_insert
    \/ Worker_alloc
    \/ Worker_create_file
    \/ Worker_sync
    \/ Worker_flush_failed
    \/ Worker_mark_flushed
    \/ Worker_compact

SpecFlush == Init /\ [][NextFlush]_vars

\* The frozen table t is still returned by the frozen-queue iteration.
StillIterated(t) ==
    \E i \in 1..Len(FrozenTables_iter(imm, flushed)) :
        FrozenTables_iter(imm, flushed)[i] = t

\* A CreateFile record for the SSTable of t lies in the synced prefix of the
\* manifest file.
CreateFileSynced(t) ==
    \E i \in 1..manifestSynced :
        /\ manifestFile[i].kind = "CreateFile"
        /\ manifestFile[i].file_meta.smallest_key = t.data[1].key
        /\ manifestFile[i].file_meta.largest_key = t.data[Len(t.data)].key

\* C13: flush completion is atomic for readers: in every state, each frozen
\* memtable pushed in this run is either still returned by the frozen-queue
\* iteration, or a CreateFile record for its SSTable has been appended to
\* the manifest and fsynced; it is never marked flushed or dropped from the
\* queue before that.
C13_FlushCompletionAtomic ==
    phase = "open" =>
        \A i \in 1..Len(pushed) :
            StillIterated(pushed[i]) \/ CreateFileSynced(pushed[i])

\* A flushed table has been marked and then dropped by compact while a
\* younger frozen table is still pending.
C13_Witness ==
    /\ phase = "open"
    /\ Len(pushed) = 2
    /\ ~StillIterated(pushed[1])
    /\ CreateFileSynced(pushed[1])
    /\ imm = <<pushed[2]>>
    /\ flushed = 0

(***************************************************************************)
(* Ord for Key, called on two internal keys.                               *)
(***************************************************************************)
MaxKeyLen == 2

\* Bytes at both ends of the unsigned range.
KeyBytes == {0, 1, 255}

ByteStrings(n) == UNION {[1..m -> KeyBytes] : m \in 0..n}

SeqNos == {0, 1, U64_MAX}

InternalKeys == {Key_new(u, sn) : u \in ByteStrings(MaxKeyLen), sn \in SeqNos}

InitKeyOrder ==
    /\ FnInit
    /\ input \in [a : InternalKeys, b : InternalKeys]

\* a.cmp(&b), and b.cmp(&a).
Key_compare ==
    /\ ~output.done
    /\ output' = Returned([ab |-> Key_cmp(input.a, input.b),
                           ba |-> Key_cmp(input.b, input.a)])
    /\ UNCHANGED <<dbVars, lockVars, flushVars, histVars, extVars, input>>

NextKeyOrder == Key_compare

SpecKeyOrder == InitKeyOrder /\ [][NextKeyOrder]_vars

\* u is below v in unsigned lexicographic order: at the first position
\* where they differ u has the smaller byte, or u is a proper prefix of v.
LexLess(u, v) ==
    \E i \in 1..(Len(v)) :
        /\ \A j \in 1..(i - 1) : j <= Len(u) /\ u[j] = v[j]
        /\ Len(u) >= i - 1
        /\ (Len(u) = i - 1 \/ u[i] < v[i])

\* The order the internal keys are to have: user key ascending, then
\* sequence number descending.
KeyLess(a, b) ==
    \/ LexLess(a.uk, b.uk)
    \/ a.uk = b.uk /\ a.sn > b.sn

\* C14: the comparison of internal keys is the total order with
\* (u1,s1) < (u2,s2) iff u1 < u2 in unsigned lexicographic byte order, or
\* u1 = u2 and s1 > s2; two keys compare equal iff u1 = u2 and s1 = s2.
C14_KeyOrder ==
    output.done =>
        /\ (output.val.ab = "Less") <=> KeyLess(input.a, input.b)
        /\ (output.val.ab = "Equal") <=> (input.a.uk = input.b.uk /\ input.a.sn = input.b.sn)
        /\ (output.val.ab = "Greater") <=> KeyLess(input.b, input.a)
        /\ (output.val.ab = "Greater") <=> (output.val.ba = "Less")

\* The same user key with the largest and the smallest sequence number:
\* the larger sequence number sorts first.
C14_Witness ==
    /\ output.done
    /\ input.a.uk = input.b.uk
    /\ Len(input.a.uk) = 2
    /\ input.a.sn = U64_MAX
    /\ input.b.sn = 0
    /\ output.val.ab = "Less"

(***************************************************************************)
(* MemTable::get_latest, called on a memtable built by put and delete.     *)
(***************************************************************************)
MaxEntries == 3

\* User keys one of which is a prefix of another.
LookupKeys == {<<1>>, <<1, 1>>, <<2>>}

\* A put (val is Some) or delete (val is None) with its internal key.
TableOps ==
    [key : {Key_new(u, sn) : u \in LookupKeys, sn \in SeqNos},
     val : {Some(<<3>>), None}]

RECURSIVE MemTable_build(_)
MemTable_build(ops) ==
    IF ops = <<>> THEN MemTable_new
    ELSE LET t == MemTable_build(SubSeq(ops, 1, Len(ops) - 1))
             o == ops[Len(ops)]
         IN  IF o.val.some THEN MemTable_put(t, o.key, o.val.val)
             ELSE MemTable_delete(t, o.key)

InitGetLatest ==
    /\ FnInit
    /\ \E n \in 0..MaxEntries : \E ops \in [1..n -> TableOps] :
         \E k \in LookupKeys :
            input = [table |-> MemTable_build(ops), k |-> k]

MemTable_lookup ==
    /\ ~output.done
    /\ output' = Returned(MemTable_get_latest(input.table, input.k))
    /\ UNCHANGED <<dbVars, lockVars, flushVars, histVars, extVars, input>>

NextGetLatest == MemTable_lookup

SpecGetLatest == InitGetLatest /\ [][NextGetLatest]_vars

\* C15: get_latest(K) returns the value of the entry with the greatest
\* sequence number among the entries whose user key is exactly K, for any
\* sequence numbers from 0 to u64::MAX, and nothing iff the memtable has no
\* entry with user key K; entries of other user keys, those K is a prefix
\* of included, have no influence.
C15_GetLatest ==
    output.done =>
        output.val = IF HasVersion(input.table, input.k)
                     THEN Some(NewestVersion(input.table, input.k))
                     ELSE None

\* K has entries at sequence numbers 0 and u64::MAX with different values,
\* beside an entry of a key K is a prefix of; the lookup returned the one at
\* u64::MAX.
C15_Witness ==
    /\ output.done
    /\ input.k = <<1>>
    /\ \E a, b, c \in TableEntries(input.table) :
        /\ a.key = Key_new(<<1>>, 0)
        /\ b.key = Key_new(<<1>>, U64_MAX)
        /\ c.key.uk = <<1, 1>>
        /\ a.val # b.val
        /\ c.val # b.val
        /\ output.val = Some(b.val)

(***************************************************************************)
(* SSTableManager::open on a manifests directory as it may be found.       *)
(***************************************************************************)
MaxManifestFiles == 2

ManifestNames ==
    {format_file_name(id, MANIFEST_FILE_EXT) : id \in 0..(MaxManifestFiles - 1)}

\* What a manifest file may hold: nothing yet, the bootstrap Snapshot, and
\* records appended after it.
ManifestContents ==
    {<<>>,
     Manager_bootstrap.file,
     Append(Manager_bootstrap.file, RecAllocFileNumber(1)),
     Append(Manager_bootstrap.file, RecSetLastSeqNo(1))}

ManifestDirs ==
    [current : {None} \cup {Some(n) : n \in ManifestNames},
     files : [ManifestNames -> {None} \cup {Some(c) : c \in ManifestContents}]]

InitManagerOpen ==
    /\ FnInit
    /\ input \in ManifestDirs

SSTableManager_open_dir ==
    /\ ~output.done
    /\ output' = Returned(Manager_open_dir(input))
    /\ UNCHANGED <<dbVars, lockVars, flushVars, histVars, extVars, input>>

\* The manager is dropped, or open has failed; the directory stays as open
\* left it for the next open.
SSTableManager_drop ==
    /\ output.done
    /\ input' = output.val.dir
    /\ output' = NoOutput
    /\ UNCHANGED <<dbVars, lockVars, flushVars, histVars, extVars>>

NextManagerOpen == SSTableManager_open_dir \/ SSTableManager_drop

SpecManagerOpen == InitManagerOpen /\ [][NextManagerOpen]_vars

InitialManifestName == [stem |-> <<0, 0, 0, 0, 0, 0>>, ext |-> "manifest"]

\* C16: after open on an empty data_dir, CURRENT exists and holds the name
\* of the initial manifest file, 000000.manifest; that file exists; and
\* replaying it yields the empty initial manifest (level 0 with no files,
\* last committed sequence number 0), equal to the in-memory manifest.
C16_BootstrapManifest ==
    (output.done /\ ~input.current.some /\ Dir_is_empty(input)) =>
        LET o == output.val
        IN  /\ o.st = "ok"
            /\ o.dir.current = Some(InitialManifestName)
            /\ InitialManifestName \in DOMAIN o.dir.files
            /\ o.dir.files[InitialManifestName].some
            /\ \E m \in {Manifest_load_from_file(
                            o.dir.files[InitialManifestName].val)} :
                /\ DOMAIN m.levels = {0}
                /\ m.levels[0] = EmptyMap
                /\ m.last_committed_sequence_number = 0
                /\ o.manifest = Some(m)

\* Open has run on an empty directory and returned a manager.
C16_Witness ==
    /\ output.done
    /\ ~input.current.some
    /\ Dir_is_empty(input)
    /\ output.val.st = "ok"
    /\ output.val.dir # input

\* C17: when CURRENT is absent while the manifests directory is not empty,
\* open fails and never bootstraps: no CURRENT is written and no manifest
\* file is created or modified.
C17_NoBootstrapOverManifests ==
    (output.done /\ ~input.current.some /\ ~Dir_is_empty(input)) =>
        /\ output.val.st # "ok"
        /\ output.val.dir = input

\* Open has run on a directory without CURRENT whose 000000.manifest holds
\* records, and has failed.
C17_Witness ==
    /\ output.done
    /\ ~input.current.some
    /\ input.files[InitialManifestName] = Some(Manager_bootstrap.file)
    /\ output.val.st = "panic"

(***************************************************************************)
(* framed.rs: write_framed, read_framed and read_all_framed over the bytes *)
(* of a manifest file.  The payload is postcard's encoding of a            *)
(* ManifestRecord: the variant index, then the fields, each integer a      *)
(* varint (one byte below 128).                                            *)
(***************************************************************************)
MaxFrames == 1
MaxTail == 6

\* postcard::to_stdvec of a DeleteFile, SetLastSeqNo or AllocFileNumber.
Postcard_encode(r) ==
    IF r.kind = "DeleteFile" THEN <<2, r.level, r.file_number>>
    ELSE IF r.kind = "SetLastSeqNo" THEN <<3, r.seq_no>>
    ELSE <<4, r.file_no>>

\* postcard::from_bytes::<ManifestRecord> on a payload of one to three
\* bytes, each below 128: a Snapshot or CreateFile body does not fit in
\* three bytes and the decoder runs out of input; a variant index above 4
\* is rejected by the derived Deserialize; bytes after the value are
\* ignored.
Postcard_decode(buf) ==
    CASE buf[1] \in {0, 1} /\ Len(buf) < 4 -> [st |-> "UnexpectedEnd"]
      [] buf[1] = 2 /\ Len(buf) < 3 -> [st |-> "UnexpectedEnd"]
      [] buf[1] = 2 /\ Len(buf) >= 3 ->
            [st |-> "Ok", rec |-> RecDeleteFile(buf[2], buf[3])]
      [] buf[1] \in {3, 4} /\ Len(buf) < 2 -> [st |-> "UnexpectedEnd"]
      [] buf[1] = 3 /\ Len(buf) >= 2 ->
            [st |-> "Ok", rec |-> RecSetLastSeqNo(buf[2])]
      [] buf[1] = 4 /\ Len(buf) >= 2 ->
            [st |-> "Ok", rec |-> RecAllocFileNumber(buf[2])]
      [] buf[1] > 4 /\ buf[1] < 128 -> [st |-> "SerdeDeCustom"]

\* u32::to_le_bytes and u32::from_le_bytes.
U32_to_le_bytes(n) ==
    <<n % 256, (n \div 256) % 256, (n \div 65536) % 256, (n \div 16777216) % 256>>

U32_from_le_bytes(b) == b[1] + 256 * b[2] + 65536 * b[3] + 16777216 * b[4]

\* write_framed: the length of the payload, then the payload.
write_framed(r) ==
    U32_to_le_bytes(Len(Postcard_encode(r))) \o Postcard_encode(r)

\* read_framed on the bytes from position pos (bytes already read: pos).
\* read_exact failing on the length or on the payload, and a length of 0,
\* all give DeserializeUnexpectedEnd.
read_framed(bytes, pos) ==
    IF Len(bytes) - pos < 4 THEN [st |-> "UnexpectedEnd"]
    ELSE LET len == U32_from_le_bytes(SubSeq(bytes, pos + 1, pos + 4))
         IN  IF len = 0 THEN [st |-> "UnexpectedEnd"]
             ELSE IF Len(bytes) - (pos + 4) < len THEN [st |-> "UnexpectedEnd"]
             ELSE LET d == Postcard_decode(
                               SubSeq(bytes, pos + 5, pos + 4 + len))
                  IN  IF d.st = "Ok"
                      THEN [st |-> "Ok", rec |-> d.rec, pos |-> pos + 4 + len]
                      ELSE [st |-> d.st]

\* read_all_framed: read_framed until it fails; DeserializeUnexpectedEnd
\* ends the loop with the records read so far, any other error is returned.
RECURSIVE ReadAllFrom(_, _, _)
ReadAllFrom(bytes, pos, res) ==
    LET f == read_framed(bytes, pos)
    IN  IF f.st = "Ok" THEN ReadAllFrom(bytes, f.pos, Append(res, f.rec))
        ELSE IF f.st = "UnexpectedEnd" THEN [st |-> "Ok", recs |-> res]
        ELSE [st |-> "Err", recs |-> <<>>]

read_all_framed(bytes) == ReadAllFrom(bytes, 0, <<>>)

\* Bytes of the inputs: lengths 0 to 3, variant indexes 0 to 3, and 5, which
\* is no variant of ManifestRecord.
FrameBytes == {0, 1, 2, 3, 5}

FrameRecords == {RecSetLastSeqNo(2), RecDeleteFile(0, 3)}

RECURSIVE write_all_framed(_)
write_all_framed(recs) ==
    IF recs = <<>> THEN <<>>
    ELSE write_framed(Head(recs)) \o write_all_framed(Tail(recs))

\* Frames written by write_framed, followed by any bytes.
InitFramed ==
    /\ FnInit
    /\ \E n \in 0..MaxFrames : \E recs \in [1..n -> FrameRecords] :
         \E m \in 0..MaxTail : \E tail \in [1..m -> FrameBytes] :
            input = write_all_framed(recs) \o tail

Framed_read_all ==
    /\ ~output.done
    /\ output' = Returned(read_all_framed(input))
    /\ UNCHANGED <<dbVars, lockVars, flushVars, histVars, extVars, input>>

NextFramed == Framed_read_all

SpecFramed == InitFramed /\ [][NextFramed]_vars

\* The input cut into its complete frames (length prefix and as many payload
\* bytes as it announces), and what is left after the last complete frame.
RECURSIVE FrameSplit(_, _)
FrameSplit(bytes, payloads) ==
    IF Len(bytes) < 4 THEN [payloads |-> payloads, rest |-> bytes]
    ELSE LET len == U32_from_le_bytes(SubSeq(bytes, 1, 4))
         IN  IF Len(bytes) < 4 + len THEN [payloads |-> payloads, rest |-> bytes]
             ELSE FrameSplit(SubSeq(bytes, 5 + len, Len(bytes)),
                             Append(payloads, SubSeq(bytes, 5, 4 + len)))

\* The payload is the serialisation of a record, possibly with unused bytes
\* after it.
Decodable(payload) ==
    \E kind \in {"DeleteFile", "SetLastSeqNo", "AllocFileNumber"} :
        \E a, b \in FrameBytes :
            LET r == IF kind = "DeleteFile" THEN RecDeleteFile(a, b)
                     ELSE IF kind = "SetLastSeqNo" THEN RecSetLastSeqNo(a)
                     ELSE RecAllocFileNumber(a)
                e == Postcard_encode(r)
            IN  Len(payload) >= Len(e) /\ SubSeq(payload, 1, Len(e)) = e

\* C18: read_all_framed returns all the records when the input ends at a
\* frame boundary; it returns an error, not a shorter list, when the input
\* ends inside a frame (inside the 4-byte length prefix, or before the
\* payload is complete); a payload that does not decode is an error.
C18_ReadAllFramed ==
    output.done =>
        LET s == FrameSplit(input, <<>>)
            allDecodable == \A i \in 1..Len(s.payloads) : Decodable(s.payloads[i])
        IN  /\ (s.rest = <<>> /\ allDecodable) =>
                  /\ output.val.st = "Ok"
                  /\ Len(output.val.recs) = Len(s.payloads)
                  /\ \A i \in 1..Len(s.payloads) :
                        Postcard_decode(s.payloads[i]).rec = output.val.recs[i]
            /\ s.rest # <<>> => output.val.st = "Err"
            /\ ~allDecodable => output.val.st = "Err"

(***************************************************************************)
(* The write path and recovery with the records of the acknowledged calls  *)
(* kept in call order.                                                     *)
(***************************************************************************)
\* The memtable insert and the return of put/delete: the call has succeeded.
Wal_insert(op) ==
    /\ Database_insert(op)
    /\ ackedRecords' = Append(ackedRecords, pend)
    /\ UNCHANGED <<lockVars, flushVars, fnVars, extVars, opened>>

Wal_put_insert == Wal_insert("Put")

Wal_delete_insert == Wal_insert("Delete")

NextWal ==
    \/ Open
    \/ OpenPanic
    \/ Put_append
    \/ Delete_append
    \/ Wal_sync
    \/ Wal_put_insert
    \/ Wal_delete_insert
    \/ Kill
    \/ Close
    \/ Kill_in_append
    \/ Wal_append_fail

SpecWal == Init /\ [][NextWal]_vars

\* a occurs in b in order (not necessarily contiguously).
RECURSIVE IsSubSeq(_, _)
IsSubSeq(a, b) ==
    IF a = <<>> THEN TRUE
    ELSE IF b = <<>> THEN FALSE
    ELSE IF Head(a) = Head(b) THEN IsSubSeq(Tail(a), Tail(b))
    ELSE IsSubSeq(a, Tail(b))

Occurrences(r, s) == Cardinality({i \in 1..Len(s) : s[i] = r})

\* C19: the WAL holds exactly one record for each successful put/delete, in
\* the order of the calls, a Put record with the key and value and a Delete
\* record with the key, and replay returns these records in that order:
\* between calls, replay succeeds and the records of the successful calls
\* occur in it once each, in call order.
C19_WalRecordsInCallOrder ==
    (phase = "open" /\ pc = "idle") =>
        \E rp \in {Wal_replay(walFile)} :
            /\ rp.st = "ok"
            /\ IsSubSeq(ackedRecords, rp.recs)
            /\ \A i \in 1..Len(ackedRecords) :
                  Occurrences(ackedRecords[i], rp.recs) = 1

(***************************************************************************)
(* Recovery run twice: every open notes the WAL it replayed, the next      *)
(* sequence number and what get returns for every key.  The files are      *)
(* written by put and delete, by kills inside an append (a failed append    *)
(* leaves the same bytes) and by the worker's flush; compact, which only    *)
(* changes the queue in memory, is left out.                                *)
(***************************************************************************)
Reopen_open ==
    /\ Database_open
    /\ opened' = [cur |-> [some |-> TRUE,
                           walFile |-> walFile,
                           seqno |-> seqno',
                           gets |-> [k \in UserKeys |->
                                       Database_get(table', imm', flushed', k)]],
                  prev |-> opened.cur]
    /\ UNCHANGED <<lockVars, flushVars, fnVars, extVars, ackedRecords>>

NextReopen ==
    \/ Reopen_open
    \/ OpenPanic
    \/ Put_append
    \/ Delete_append
    \/ Wal_sync
    \/ Put_insert
    \/ Delete_insert
    \/ Kill
    \/ Close
    \/ Kill_in_append
    \/ Flush_step

SpecReopen == Init /\ [][NextReopen]_vars

\* Nothing was written to the WAL between the last two opens.
ReopenedUnchanged ==
    /\ opened.prev.some
    /\ opened.cur.some
    /\ opened.prev.walFile = opened.cur.walFile

Live == [st |-> "live", file |-> ""]
\* The Database value has been dropped.
Dropped == [st |-> "dropped", file |-> ""]

\* Arc::strong_count of the SSTableManager of an instance: the Database
\* holds one reference, the closure of the flush thread a clone of it.
Arc_strong_count(pcs, threads, p) ==
    (IF pcs[p] = Live THEN 1 ELSE 0) + (IF threads[p] # "none" THEN 1 ELSE 0)

\* Database::open spawns the flush thread, which takes a clone of the
\* Arc<SSTableManager>, and returns.
Database_spawn(p) ==
    /\ procPc[p] = Opened
    /\ flushThreads[p] = "none"
    /\ flushThreads' = [flushThreads EXCEPT ![p] = "running"]
    /\ procPc' = [procPc EXCEPT ![p] = Live]
    /\ UNCHANGED <<fileLocks, procOpens, dbVars, flushVars, fnVars, histVars, extVars>>

\* The flush thread finds pop_front empty and parks.  The loop has no other
\* way out: no break, no return, no flag it reads.
Thread_park(p) ==
    /\ flushThreads[p] = "running"
    /\ flushThreads' = [flushThreads EXCEPT ![p] = "parked"]
    /\ UNCHANGED <<procPc, fileLocks, procOpens, dbVars, flushVars, fnVars,
                   histVars, extVars>>

\* maybe_rotate_memtable unparks the flush thread; it needs the Database.
Thread_unpark(p) ==
    /\ procPc[p] = Live
    /\ flushThreads[p] = "parked"
    /\ flushThreads' = [flushThreads EXCEPT ![p] = "running"]
    /\ UNCHANGED <<procPc, fileLocks, procOpens, dbVars, flushVars, fnVars,
                   histVars, extVars>>

\* The Database goes out of scope.  There is no Drop for Database: its
\* fields are dropped.  Drop for Wal flushes and unlocks wal.log.  Dropping
\* the JoinHandle detaches the thread.  Dropping the Arc<SSTableManager>
\* runs Drop for SSTableManager, which unlocks CURRENT and the manifest,
\* only when it was the last reference.
Database_drop(p) ==
    /\ procPc[p] = Live
    /\ procPc' = [procPc EXCEPT ![p] = Dropped]
    /\ fileLocks' =
           [f \in LockFiles |->
               IF f = "wal.log"
                  \/ Arc_strong_count(procPc', flushThreads, p) = 0
               THEN fileLocks[f] \ {p}
               ELSE fileLocks[f]]
    /\ UNCHANGED <<procOpens, flushThreads, dbVars, flushVars, fnVars,
                   histVars, extVars>>

\* The process ends: its threads end with it and the system closes its
\* files, which releases their locks.
Process_exit ==
    /\ \E p \in Procs : procPc[p] # Closed
    /\ procPc' = [p \in Procs |-> Closed]
    /\ fileLocks' = [f \in LockFiles |-> {}]
    /\ flushThreads' = [p \in Procs |-> "none"]
    /\ UNCHANGED <<procOpens, dbVars, flushVars, fnVars, histVars, extVars>>

NextClose ==
    \/ \E p \in Procs :
           \/ Proc_open(p)
           \/ Proc_lock_next(p)
           \/ Proc_lock_granted(p)
           \/ Database_spawn(p)
           \/ Thread_park(p)
           \/ Thread_unpark(p)
           \/ Database_drop(p)
    \/ Process_exit

SpecClose == Init /\ [][NextClose]_vars

\* C21: once a Database has been dropped, its flush thread has stopped and
\* none of wal.log, CURRENT and the active manifest is still locked by it,
\* so that no later open of the same data_dir waits for a lock.
C21_DropReleasesAll ==
    \A p \in Procs :
        procPc[p] = Dropped =>
            /\ flushThreads[p] = "none"
            /\ \A f \in LockFiles : p \notin fileLocks[f]
            /\ \A q \in Procs : procPc[q].st # "blocked"

\* ---------------------------------------------------------------------
\* key.rs and value.rs: the byte encodings of Key and Value, as the
\* SSTable blocks hold them.
\* ---------------------------------------------------------------------

\* u64::to_le_bytes and u64::from_le_bytes, on the w bytes left.
RECURSIVE LeBytes(_, _)
LeBytes(n, w) ==
    IF w = 0 THEN <<>> ELSE <<n % 256>> \o LeBytes(n \div 256, w - 1)

RECURSIVE LeValue(_)
LeValue(b) == IF b = <<>> THEN 0 ELSE Head(b) + 256 * LeValue(Tail(b))

U64_to_le_bytes(n) == LeBytes(n, 8)

U64_from_le_bytes(b) == LeValue(b)

\* Key::encoded_len
Key_encoded_len(k) == 4 + Len(k.uk) + 8

\* Key::encode_into: put_u32_le(key_len), put_slice(user_key),
\* put_u64_le(seqno).
Key_encode_into(k) ==
    U32_to_le_bytes(Len(k.uk)) \o k.uk \o U64_to_le_bytes(k.sn)

\* The bytes of buf from position n + 1 on: the buffer after n bytes were
\* taken from its front.
Buf_advance(buf, n) == SubSeq(buf, n + 1, Len(buf))

\* Key::decode_from that returns u64::MAX - seqno.
Key_decode_from_inverted_seqno(buf) ==
    IF Len(buf) < 4 THEN [st |-> "Err", rest |-> buf]
    ELSE LET key_len == U32_from_le_bytes(SubSeq(buf, 1, 4))
             b1 == Buf_advance(buf, 4)
         IN  IF Len(b1) < key_len + 8 THEN [st |-> "Err", rest |-> b1]
             ELSE [st |-> "Ok",
                   val |-> Key_new(SubSeq(b1, 1, key_len),
                                   U64_MAX - U64_from_le_bytes(
                                       SubSeq(b1, key_len + 1, key_len + 8))),
                   rest |-> Buf_advance(b1, key_len + 8)]

\* Key::decode_from: try_get_u32_le, the "Buffer too small" test,
\* copy_to_bytes(key_len), try_get_u64_le.  rest is the buffer afterwards.
Key_decode_from(buf) ==
    IF Len(buf) < 4 THEN [st |-> "Err", rest |-> buf]
    ELSE LET key_len == U32_from_le_bytes(SubSeq(buf, 1, 4))
             b1 == Buf_advance(buf, 4)
         IN  IF Len(b1) < key_len + 8 THEN [st |-> "Err", rest |-> b1]
             ELSE [st |-> "Ok",
                   val |-> Key_new(SubSeq(b1, 1, key_len),
                                   U64_from_le_bytes(
                                       SubSeq(b1, key_len + 1, key_len + 8))),
                   rest |-> Buf_advance(b1, key_len + 8)]

\* ValueType as u8, and ValueType::from_u8.
ValueType_as_u8(v) == IF v.tag = "Data" THEN 0 ELSE 1

ValueType_from_u8(x) ==
    IF x = 0 THEN Some("Data") ELSE IF x = 1 THEN Some("Tombstone") ELSE None

\* Value::encode_into: the type byte, then for Data the length and bytes.
Value_encode_into(v) ==
    <<ValueType_as_u8(v)>> \o
    (IF v.tag = "Data" THEN U32_to_le_bytes(Len(v.bytes)) \o v.bytes
     ELSE <<>>)

\* Value::decode_from
Value_decode_from(buf) ==
    IF buf = <<>> THEN [st |-> "Err", rest |-> buf]
    ELSE LET value_type == ValueType_from_u8(buf[1])
             b1 == Buf_advance(buf, 1)
         IN  IF ~value_type.some THEN [st |-> "Err", rest |-> b1]
             ELSE IF value_type.val = "Tombstone"
             THEN [st |-> "Ok", val |-> Tombstone, rest |-> b1]
             ELSE IF Len(b1) < 4 THEN [st |-> "Err", rest |-> b1]
             ELSE LET len == U32_from_le_bytes(SubSeq(b1, 1, 4))
                      b2 == Buf_advance(b1, 4)
                  IN  IF Len(b2) < len THEN [st |-> "Err", rest |-> b2]
                      ELSE [st |-> "Ok", val |-> Data(SubSeq(b2, 1, len)),
                            rest |-> Buf_advance(b2, len)]

\* Sequence numbers of one byte and of two bytes.
CodecSeqNos == {0, 1, 255, 258}

CodecKeys == {Key_new(u, sn) : u \in ByteStrings(MaxKeyLen), sn \in CodecSeqNos}

CodecValues == {Data(b) : b \in ByteStrings(MaxKeyLen)} \cup {Tombstone}

\* What follows the encoding in the buffer.
CodecTail == <<1, 0>>

Encode_into(kind, item) ==
    IF kind = "Key" THEN Key_encode_into(item) ELSE Value_encode_into(item)

\* The buffer handed to decode_from: the encoding followed by other bytes,
\* or cut short anywhere.
CodecBuffers(kind, item) ==
    LET full == Encode_into(kind, item) \o CodecTail
    IN  {SubSeq(full, 1, n) : n \in 0..Len(full)}

CodecInputs ==
    UNION {{[kind |-> kind, item |-> x, buf |-> b] :
               b \in CodecBuffers(kind, x)} :
           kind \in {"Key"}, x \in CodecKeys}
    \cup
    UNION {{[kind |-> kind, item |-> x, buf |-> b] :
               b \in CodecBuffers(kind, x)} :
           kind \in {"Value"}, x \in CodecValues}

InitCodec ==
    /\ FnInit
    /\ input \in CodecInputs

\* Key::decode_from on the buffer.
Key_decode ==
    /\ ~output.done
    /\ input.kind = "Key"
    /\ output' = Returned(Key_decode_from(input.buf))
    /\ UNCHANGED <<dbVars, lockVars, flushVars, histVars, extVars, input>>

\* Value::decode_from on the buffer.
Value_decode ==
    /\ ~output.done
    /\ input.kind = "Value"
    /\ output' = Returned(Value_decode_from(input.buf))
    /\ UNCHANGED <<dbVars, lockVars, flushVars, histVars, extVars, input>>

NextCodec == Key_decode \/ Value_decode

SpecCodec == InitCodec /\ [][NextCodec]_vars

\* C22: decoding a buffer that starts with the encoding of a Key or of a
\* Value returns that Key (its seqno as given, not inverted) or that Value
\* and leaves exactly the bytes after the encoding, which for a Key is
\* encoded_len bytes long; decoding a buffer that holds less than the
\* encoding returns an error.
C22_CodecRoundTrip ==
    output.done =>
        LET enc == Encode_into(input.kind, input.item)
        IN  /\ input.kind = "Key" => Len(enc) = Key_encoded_len(input.item)
            /\ IF Len(input.buf) >= Len(enc)
               THEN output.val = [st |-> "Ok", val |-> input.item,
                                  rest |-> Buf_advance(input.buf, Len(enc))]
               ELSE output.val.st = "Err"

\* C22's case: a key of MaxKeyLen bytes with a two-byte seqno was decoded
\* from a buffer that goes on after it.
C22_Witness ==
    /\ output.done
    /\ input.kind = "Key"
    /\ Len(input.item.uk) = MaxKeyLen
    /\ input.item.sn = 258
    /\ output.val.st = "Ok"
    /\ output.val.rest = CodecTail

\* ---------------------------------------------------------------------
\* sstable/sstable.rs and SSTableManager::flush_memtable_internal: the
\* bytes of the SSTable files a flush writes, step by step, with the
\* process killed anywhere and the manager opened again.
\* ---------------------------------------------------------------------

\* BLOCK_SIZE (16 KiB) and BASE_LEVEL_SIZE (64 MiB) scaled to entries of
\* 14 to 19 bytes: a block closes after two entries, and a file of one
\* block of two puts reaches the level size, one of a put and a delete
\* does not.
BLOCK_SIZE == 30

BASE_LEVEL_SIZE == 96

\* std::mem::size_of::<SSTableFooter>(): repr(C) u64, u64, u64, u32, u32.
SSTABLE_FOOTER_SIZE == 32

\* SSTABLE_MAGIC, 0xDEAD_BEEF, as put_u32_le writes it.
SSTABLE_MAGIC == <<239, 190, 173, 222>>

BlockMeta(last_key, offset, size) ==
    [last_key |-> last_key, offset |-> offset, size |-> size]

RECURSIVE index_block_size(_)
index_block_size(entries) ==
    IF entries = <<>> THEN 4
    ELSE Key_encoded_len(Head(entries).last_key) + 8 + 4
         + index_block_size(Tail(entries))

\* SSTableFooter::encode_into
SSTableFooter_encode_into(footer) ==
    U64_to_le_bytes(footer.index_offset) \o U64_to_le_bytes(footer.index_size)
    \o U64_to_le_bytes(footer.reserved1) \o U32_to_le_bytes(footer.reserved2)
    \o footer.magic

\* SSTableFooter::decode_from, on 32 bytes.
SSTableFooter_decode_from(buf) ==
    [index_offset |-> U64_from_le_bytes(SubSeq(buf, 1, 8)),
     index_size |-> U64_from_le_bytes(SubSeq(buf, 9, 16)),
     reserved1 |-> U64_from_le_bytes(SubSeq(buf, 17, 24)),
     reserved2 |-> U32_from_le_bytes(SubSeq(buf, 25, 28)),
     magic |-> SubSeq(buf, 29, 32)]

\* finalize_sstable's index buffer: the count, then per block its last key,
\* offset and size.
RECURSIVE Index_entries_encode(_)
Index_entries_encode(block_meta) ==
    IF block_meta = <<>> THEN <<>>
    ELSE Key_encode_into(Head(block_meta).last_key)
         \o U64_to_le_bytes(Head(block_meta).offset)
         \o U32_to_le_bytes(Head(block_meta).size)
         \o Index_entries_encode(Tail(block_meta))

Index_encode(block_meta) ==
    U32_to_le_bytes(Len(block_meta)) \o Index_entries_encode(block_meta)

\* File::write_all at the stream position: bytes there are replaced, the
\* file grows when the write goes past its end, and nothing is cut off.
File_write_all(bytes, pos, data) ==
    SubSeq(bytes, 1, pos) \o data
    \o SubSeq(bytes, pos + Len(data) + 1, Len(bytes))

\* OpenOptions::new().create(true).write(true).read(true).open(path): a
\* new empty file, or the file that is there, as it is.
File_open_create(dir, file_no) ==
    IF file_no \in DOMAIN dir THEN dir
    ELSE MapPut(dir, file_no, [bytes |-> <<>>, synced |-> FALSE])

\* The local variables of flush_memtable_internal when it starts on a
\* memtable, with the files finalized so far and the numbers allocated.
Flush_locals(data, file_no) ==
    [at |-> "create", data |-> data, idx |-> 0, file_no |-> file_no,
     pos |-> 0, block_meta |-> <<>>, current_block |-> <<>>,
     sstable_size |-> 0, first_key |-> None, last_key |-> None,
     in_loop |-> FALSE, index_size |-> 0, files |-> <<>>,
     allocs |-> <<file_no>>]

\* One iteration of `for (idx, (key, val)) in memtable_data.iter()`, up to
\* the call of finalize_sstable.  Result: the locals and the file.
Flush_entry(w, bytes) ==
    LET e  == w.data[w.idx + 1]
        cb == w.current_block \o Key_encode_into(e.key)
                              \o Value_encode_into(e.val)
        w1 == [w EXCEPT !.idx = w.idx + 1,
                        !.first_key = IF w.first_key.some THEN w.first_key
                                      ELSE Some(e.key),
                        !.last_key = Some(e.key)]
    IN  IF Len(cb) >= BLOCK_SIZE
        THEN LET bm == Append(w.block_meta, BlockMeta(e.key, w.pos, Len(cb)))
                 sz == w.sstable_size + Len(cb)
             IN  [w |-> [w1 EXCEPT
                           !.block_meta = bm,
                           !.pos = w.pos + Len(cb),
                           !.sstable_size = sz,
                           !.current_block = <<>>,
                           !.in_loop = TRUE,
                           !.at = IF sz + index_block_size(bm)
                                      + SSTABLE_FOOTER_SIZE >= BASE_LEVEL_SIZE
                                  THEN "finalize" ELSE "entry"],
                  bytes |-> File_write_all(bytes, w.pos, cb)]
        ELSE [w |-> [w1 EXCEPT !.current_block = cb], bytes |-> bytes]

\* After the loop: `if let Some(smallest_key) = &first_key`, the last block
\* is pushed and written.
Flush_tail(w, bytes) ==
    [w |-> [w EXCEPT
              !.block_meta = Append(w.block_meta,
                                    BlockMeta(w.last_key.val, w.pos,
                                              Len(w.current_block))),
              !.pos = w.pos + Len(w.current_block),
              !.sstable_size = w.sstable_size + Len(w.current_block),
              !.in_loop = FALSE,
              !.at = "finalize"],
     bytes |-> File_write_all(bytes, w.pos, w.current_block)]

\* finalize_sstable: the index block and the footer are written.
Finalize_write(w, bytes) ==
    LET index_buf == Index_encode(w.block_meta)
        footer == [index_offset |-> w.pos, index_size |-> Len(index_buf),
                   reserved1 |-> 0, reserved2 |-> 0, magic |-> SSTABLE_MAGIC]
        b1 == File_write_all(bytes, w.pos, index_buf)
        b2 == File_write_all(b1, w.pos + Len(index_buf),
                             SSTableFooter_encode_into(footer))
    IN  [w |-> [w EXCEPT !.at = "fsync",
                         !.index_size = Len(index_buf),
                         !.files = Append(w.files,
                                          [file_no |-> w.file_no,
                                           index_start |-> w.pos,
                                           block_meta |-> w.block_meta]),
                         !.pos = w.pos + Len(index_buf) + SSTABLE_FOOTER_SIZE],
         bytes |-> b2]

\* finalize_sstable: the CreateFile record.
Finalize_record(w) ==
    RecCreateFile(0, [file_number |-> w.file_no,
                      file_size |-> w.sstable_size + w.index_size
                                    + SSTABLE_FOOTER_SIZE,
                      smallest_key |-> Key_encode_into(w.first_key.val),
                      largest_key |-> Key_encode_into(w.last_key.val)])

\* Back in flush_memtable_internal after finalize_sstable returned Ok.
Flush_after_finalize(w) ==
    IF w.in_loop
    THEN [w EXCEPT !.block_meta = <<>>, !.sstable_size = 0,
                   !.first_key = None, !.last_key = None,
                   !.at = IF w.idx < Len(w.data) THEN "realloc" ELSE "entry"]
    ELSE [w EXCEPT !.at = "ok"]

\* Flushes begun, over all runs.
MaxSstFlushes == 2

\* The frozen memtables flushed: one put; a put and a delete of one key (a
\* full block at the last entry, the file below the level size); two puts
\* (a full block at the last entry, the file at the level size); three puts
\* (a second file for the third); a put and a delete, then a put (two
\* blocks in one file).
SstPut(u, sn) == [key |-> Key_new(u, sn), val |-> Some(<<3>>)]

SstDelete(u, sn) == [key |-> Key_new(u, sn), val |-> None]

SstTables ==
    {MemTable_build(ops).data :
        ops \in {<<SstPut(<<1>>, 1)>>,
                 <<SstPut(<<1>>, 1), SstDelete(<<1>>, 2)>>,
                 <<SstPut(<<1>>, 1), SstPut(<<2>>, 2)>>,
                 <<SstPut(<<1>>, 1), SstPut(<<2>>, 2), SstPut(<<1>>, 3)>>,
                 <<SstPut(<<1>>, 1), SstDelete(<<1>>, 2), SstPut(<<2>>, 3)>>}}

sstUnchanged ==
    <<walFile, walSynced, wal, table, imm, flushed, seqno, pc, pend, nOps,
      event, last, acked, maybe, maxAcked, lastAssigned, runStart, snap,
      allocated, walRecords, lockVars, fnVars, histVars, extVars, pushed, threadVars>>

\* SSTableManager::open: bootstrap, or replay of the manifest file.
Sst_open ==
    /\ phase = "down"
    /\ phase' = "open"
    /\ manifest' = Manager_open.manifest
    /\ manifestFile' = Manager_open.file
    /\ current' = Manager_open.current
    /\ manifestSynced' = Manager_sync(manifestFile', manifestSynced)
    /\ worker' = WorkerIdle
    /\ UNCHANGED <<nRuns, nFlushes, sstables, sstUnchanged>>

\* flush_memtable_internal begins: alloc_file_number appends the
\* AllocFileNumber record and syncs the manifest.
Sst_alloc ==
    /\ phase = "open"
    /\ worker.at \in {"idle", "ok"}
    /\ nFlushes < MaxSstFlushes
    /\ nFlushes' = nFlushes + 1
    /\ \E data \in SstTables :
       \E a \in {Manager_alloc_file_number(manifest, manifestFile)} :
        /\ manifest' = a.manifest
        /\ manifestFile' = a.file
        /\ manifestSynced' = Manager_sync(a.file, manifestSynced)
        /\ worker' = Flush_locals(data, a.fileno)
    /\ UNCHANGED <<phase, current, nRuns, sstables, sstUnchanged>>

\* The file of the number allocated is opened, created if it is not there.
Sst_create_file ==
    /\ phase = "open"
    /\ worker.at = "create"
    /\ sstables' = File_open_create(sstables, worker.file_no)
    /\ worker' = [worker EXCEPT !.at = "entry", !.pos = 0]
    /\ UNCHANGED <<phase, manifest, manifestFile, current, manifestSynced,
                   nRuns, nFlushes, sstUnchanged>>

\* The next entry of the memtable goes into the current block; a full
\* block is written.
Sst_entry ==
    /\ phase = "open"
    /\ worker.at = "entry"
    /\ worker.idx < Len(worker.data)
    /\ \E r \in {Flush_entry(worker, sstables[worker.file_no].bytes)} :
        /\ worker' = r.w
        /\ sstables' = [sstables EXCEPT ![worker.file_no] =
                           [bytes |-> r.bytes,
                            synced |-> @.synced /\ r.bytes = @.bytes]]
    /\ UNCHANGED <<phase, manifest, manifestFile, current, manifestSynced,
                   nRuns, nFlushes, sstUnchanged>>

\* The loop is over: the block left is written, or there is none and the
\* flush returns Ok.
Sst_tail ==
    /\ phase = "open"
    /\ worker.at = "entry"
    /\ worker.idx = Len(worker.data)
    /\ IF worker.first_key.some
       THEN \E r \in {Flush_tail(worker, sstables[worker.file_no].bytes)} :
               /\ worker' = r.w
               /\ sstables' = [sstables EXCEPT ![worker.file_no] =
                                  [bytes |-> r.bytes,
                                   synced |-> @.synced /\ r.bytes = @.bytes]]
       ELSE /\ worker' = [worker EXCEPT !.at = "ok"]
            /\ UNCHANGED sstables
    /\ UNCHANGED <<phase, manifest, manifestFile, current, manifestSynced,
                   nRuns, nFlushes, sstUnchanged>>

\* finalize_sstable writes the index block and the footer.
Sst_finalize_write ==
    /\ phase = "open"
    /\ worker.at = "finalize"
    /\ \E r \in {Finalize_write(worker, sstables[worker.file_no].bytes)} :
        /\ worker' = r.w
        /\ sstables' = [sstables EXCEPT ![worker.file_no] =
                           [bytes |-> r.bytes,
                            synced |-> @.synced /\ r.bytes = @.bytes]]
    /\ UNCHANGED <<phase, manifest, manifestFile, current, manifestSynced,
                   nRuns, nFlushes, sstUnchanged>>

\* finalize_sstable: file.flush() and file.sync_all().
Sst_finalize_fsync ==
    /\ phase = "open"
    /\ worker.at = "fsync"
    /\ sstables' = [sstables EXCEPT ![worker.file_no].synced = TRUE]
    /\ worker' = [worker EXCEPT !.at = "append"]
    /\ UNCHANGED <<phase, manifest, manifestFile, current, manifestSynced,
                   nRuns, nFlushes, sstUnchanged>>

\* finalize_sstable: append_record(CreateFile).
Sst_finalize_append ==
    /\ phase = "open"
    /\ worker.at = "append"
    /\ manifest' = Manager_apply_record(manifest, Finalize_record(worker))
    /\ manifestFile' = Append(manifestFile, Finalize_record(worker))
    /\ worker' = [worker EXCEPT !.at = "msync"]
    /\ UNCHANGED <<phase, current, manifestSynced, nRuns, nFlushes, sstables,
                   sstUnchanged>>

\* finalize_sstable: self.sync(), and back in flush_memtable_internal.
Sst_finalize_sync ==
    /\ phase = "open"
    /\ worker.at = "msync"
    /\ manifestSynced' = Manager_sync(manifestFile, manifestSynced)
    /\ worker' = Flush_after_finalize(worker)
    /\ UNCHANGED <<phase, manifest, manifestFile, current, nRuns, nFlushes,
                   sstables, sstUnchanged>>

\* Entries remain after a file was finalized: alloc_file_number again.
Sst_alloc_next ==
    /\ phase = "open"
    /\ worker.at = "realloc"
    /\ \E a \in {Manager_alloc_file_number(manifest, manifestFile)} :
        /\ manifest' = a.manifest
        /\ manifestFile' = a.file
        /\ manifestSynced' = Manager_sync(a.file, manifestSynced)
        /\ worker' = [worker EXCEPT !.at = "create", !.file_no = a.fileno,
                                    !.allocs = Append(@, a.fileno)]
    /\ UNCHANGED <<phase, current, nRuns, nFlushes, sstables, sstUnchanged>>

\* The process ends or the machine loses power: manifest records not yet
\* synced may be lost; the SSTable files stay as written.
Sst_kill ==
    /\ phase = "open"
    /\ nRuns < MaxRuns
    /\ nRuns' = nRuns + 1
    /\ phase' = "down"
    /\ worker' = WorkerIdle
    /\ \E n \in manifestSynced..Len(manifestFile) :
        manifestFile' = SubSeq(manifestFile, 1, n)
    /\ UNCHANGED <<manifest, current, manifestSynced, nFlushes, sstables,
                   sstUnchanged>>

NextSSTable ==
    \/ Sst_open
    \/ Sst_alloc
    \/ Sst_create_file
    \/ Sst_entry
    \/ Sst_tail
    \/ Sst_finalize_write
    \/ Sst_finalize_fsync
    \/ Sst_finalize_append
    \/ Sst_finalize_sync
    \/ Sst_alloc_next
    \/ Sst_kill

SpecSSTable == Init /\ [][NextSSTable]_vars

\* C24: every file in sstables/ has a number whose AllocFileNumber record
\* is in the part of the manifest file that was synced before the file was
\* created, for the first file of a flush and for the later ones, the
\* process killed anywhere.
C24_AllocBeforeFile ==
    \A f \in DOMAIN sstables :
        \E i \in 1..manifestSynced :
            /\ i <= Len(manifestFile)
            /\ manifestFile[i] = RecAllocFileNumber(f)

\* C24's case: a flush that split its memtable has created its second file,
\* after a kill and a reopen.
C24_Witness ==
    /\ nRuns >= 1
    /\ phase = "open"
    /\ worker.at = "entry"
    /\ Len(worker.allocs) = 2
    /\ worker.file_no \in DOMAIN sstables
    /\ Len(worker.files) = 1

\* A little-endian number below 65536, as every offset, size and count of
\* the files here is: its bytes past the second are 0.
LeSmall(b) == \A i \in 3..Len(b) : b[i] = 0

\* The entries of an index block of n entries, read from buf.
RECURSIVE Index_entries_decode(_, _)
Index_entries_decode(buf, n) ==
    IF n = 0 THEN [ok |-> buf = <<>>, index |-> <<>>]
    ELSE LET k == Key_decode_from(buf)
         IN  IF Len(buf) < 4 \/ ~LeSmall(SubSeq(buf, 1, 4)) \/ k.st # "Ok"
                \/ Len(k.rest) < 12
                \/ ~LeSmall(SubSeq(k.rest, 1, 8))
                \/ ~LeSmall(SubSeq(k.rest, 9, 12))
             THEN [ok |-> FALSE, index |-> <<>>]
             ELSE LET more == Index_entries_decode(Buf_advance(k.rest, 12),
                                                   n - 1)
                  IN  [ok |-> more.ok,
                       index |-> <<BlockMeta(
                                     k.val,
                                     U64_from_le_bytes(SubSeq(k.rest, 1, 8)),
                                     U32_from_le_bytes(SubSeq(k.rest, 9, 12)))>>
                                 \o more.index]

\* What a reader finds in an SSTable file: the footer in its last 32 bytes,
\* and the index block the footer points at.
SSTable_parse(bytes) ==
    IF Len(bytes) < SSTABLE_FOOTER_SIZE THEN [ok |-> FALSE]
    ELSE LET tail == SubSeq(bytes, Len(bytes) - SSTABLE_FOOTER_SIZE + 1,
                            Len(bytes))
         IN  IF ~LeSmall(SubSeq(tail, 1, 8)) \/ ~LeSmall(SubSeq(tail, 9, 16))
                \/ ~LeSmall(SubSeq(tail, 17, 24))
                \/ ~LeSmall(SubSeq(tail, 25, 28))
             THEN [ok |-> FALSE]
             ELSE LET footer == SSTableFooter_decode_from(tail)
                      ibuf == SubSeq(bytes, footer.index_offset + 1,
                                     footer.index_offset + footer.index_size)
                  IN  IF footer.index_offset + footer.index_size
                            + SSTABLE_FOOTER_SIZE # Len(bytes)
                         \/ footer.index_size < 4
                         \/ ~LeSmall(SubSeq(ibuf, 1, 4))
                      THEN [ok |-> FALSE]
                      ELSE LET d == Index_entries_decode(
                                        Buf_advance(ibuf, 4),
                                        U32_from_le_bytes(SubSeq(ibuf, 1, 4)))
                           IN  [ok |-> d.ok, footer |-> footer,
                                index |-> d.index]

\* The index entries describe byte ranges of a file whose index starts at
\* index_offset: one after the other, from 0 up to the index.
BlocksTile(index, index_offset) ==
    /\ \A i \in 1..Len(index) :
          /\ index[i].offset = (IF i = 1 THEN 0
                                ELSE index[i - 1].offset + index[i - 1].size)
          /\ index[i].offset + index[i].size <= index_offset
    /\ (IF index = <<>> THEN 0
        ELSE index[Len(index)].offset + index[Len(index)].size) = index_offset

\* A complete SSTable file: it parses, with the magic, and its blocks lie
\* before the index.
SSTable_complete(bytes) ==
    LET p == SSTable_parse(bytes)
    IN  /\ p.ok
        /\ p.footer.magic = SSTABLE_MAGIC
        /\ BlocksTile(p.index, p.footer.index_offset)

\* C25: a CreateFile record in the manifest file, synced or not, is of
\* level 0 and names a file that is there, synced, and a complete SSTable:
\* data blocks, index block and footer; so it is whenever the process is
\* killed.
C25_CreateFileAfterComplete ==
    \A i \in 1..Len(manifestFile) :
        manifestFile[i].kind = "CreateFile" =>
            /\ manifestFile[i].level = 0
            /\ manifestFile[i].file_meta.file_number \in DOMAIN sstables
            /\ sstables[manifestFile[i].file_meta.file_number].synced
            /\ SSTable_complete(
                   sstables[manifestFile[i].file_meta.file_number].bytes)

\* C26: a file finalize_sstable has just written and synced is well formed.
\* Its footer, the last 32 bytes, has the magic and the offset at which the
\* index block was written; the index read there is the one written, with
\* one entry per data block of the file: each entry a non-empty range of
\* bytes, the ranges one after the other from 0 up to index_offset.
C26_FinalizedWellFormed ==
    (phase = "open" /\ worker.at = "append") =>
        LET f == worker.files[Len(worker.files)]
            p == SSTable_parse(sstables[f.file_no].bytes)
        IN  /\ p.ok
            /\ p.footer.magic = SSTABLE_MAGIC
            /\ p.footer.index_offset = f.index_start
            /\ p.index = f.block_meta
            /\ BlocksTile(p.index, p.footer.index_offset)
            /\ \A i \in 1..Len(p.index) : p.index[i].size > 0

\* The entries packed in a block.
RECURSIVE Block_entries(_)
Block_entries(buf) ==
    IF buf = <<>> THEN <<>>
    ELSE LET k == Key_decode_from(buf)
             v == Value_decode_from(k.rest)
         IN  <<Entry(k.val, v.val)>> \o Block_entries(v.rest)

\* The entries of the blocks the index entries from the i-th on describe.
RECURSIVE Blocks_entries(_, _, _)
Blocks_entries(bytes, block_meta, i) ==
    IF i > Len(block_meta) THEN <<>>
    ELSE Block_entries(SubSeq(bytes, block_meta[i].offset + 1,
                              block_meta[i].offset + block_meta[i].size))
         \o Blocks_entries(bytes, block_meta, i + 1)

\* The entries of the files of a flush from the j-th on, files in the order
\* of their allocation.
RECURSIVE Files_entries(_, _)
Files_entries(files, j) ==
    IF j > Len(files) THEN <<>>
    ELSE Blocks_entries(sstables[files[j].file_no].bytes,
                        files[j].block_meta, 1)
         \o Files_entries(files, j + 1)

\* The CreateFile records of the manifest file that name file number n.
CreateFileRecords(n) ==
    {i \in 1..Len(manifestFile) :
        /\ manifestFile[i].kind = "CreateFile"
        /\ manifestFile[i].file_meta.file_number = n}

\* C27: when a flush has returned Ok, the entries in the blocks of its
\* files, in file and block order, are the entries of the memtable in key
\* order, each once; no indexed block is empty and the last_key of an index
\* entry is the key of the last entry of its block; every file number the
\* flush allocated is named by exactly one CreateFile record, whose
\* smallest and largest key are the first and last key written to the file.
C27_FlushLosesNothing ==
    (phase = "open" /\ worker.at = "ok") =>
        /\ Files_entries(worker.files, 1) = worker.data
        /\ \A j \in 1..Len(worker.files) :
           \A i \in 1..Len(worker.files[j].block_meta) :
               LET bm == worker.files[j].block_meta[i]
                   es == Block_entries(
                             SubSeq(sstables[worker.files[j].file_no].bytes,
                                    bm.offset + 1, bm.offset + bm.size))
               IN  es # <<>> /\ es[Len(es)].key = bm.last_key
        /\ \A j \in 1..Len(worker.allocs) :
               /\ Cardinality(CreateFileRecords(worker.allocs[j])) = 1
               /\ j <= Len(worker.files)
               /\ worker.files[j].file_no = worker.allocs[j]
               /\ LET es == Blocks_entries(
                                sstables[worker.allocs[j]].bytes,
                                worker.files[j].block_meta, 1)
                  IN  \A i \in CreateFileRecords(worker.allocs[j]) :
                         /\ manifestFile[i].file_meta.smallest_key
                                = Key_encode_into(es[1].key)
                         /\ manifestFile[i].file_meta.largest_key
                                = Key_encode_into(es[Len(es)].key)

\* ---------------------------------------------------------------------
\* The flush thread and the writer on the frozen queue, call by call: the
\* loop of the flush thread (pop_front, flush, park), the writer's push
\* and unpark in maybe_rotate_memtable, and ArcSwap::rcu as a load, the
\* closure, and a compare-and-swap that runs the closure again on the
\* value it found when the swap fails.  What the loop does after a flush
\* that succeeded is not in src/ and is taken from the specification:
\* mark_flushed, and from time to time compact.
\* ---------------------------------------------------------------------

\* Memtables frozen and pushed by the writer.
MaxPushes == 2

\* The n-th frozen memtable: one put of sequence number n.
FrozenTable(n) ==
    MemTable_freeze(MemTable_put(MemTable_new, Key_new(<<1>>, n), <<3>>)).frozen

\* std::thread::park that blocks whether or not the token is there.
Park_ignores_token(token) == [parked |-> TRUE, token |-> FALSE]

\* std::thread::park: returns at once and takes the token if it is there,
\* blocks otherwise.
Park(token) ==
    IF token THEN [parked |-> FALSE, token |-> FALSE]
    ELSE [parked |-> TRUE, token |-> FALSE]

threadUnchanged ==
    <<phase, walFile, walSynced, current, wal, table, seqno, pc, pend, nOps,
      nRuns, nFlushes, event, last, acked, maybe, maxAcked, lastAssigned,
      runStart, snap, allocated, walRecords, lockVars, fnVars, histVars, extVars,
      manifestSynced, sstables>>

\* Database::open on an empty data_dir spawns the flush thread, which
\* starts at the top of its loop.
Worker_spawn ==
    /\ phase = "down"
    /\ phase' = "open"
    /\ manifest' = Manager_open.manifest
    /\ manifestFile' = Manager_open.file
    /\ current' = Manager_open.current
    /\ worker' = [at |-> "loop", table |-> MemTable_new, cur |-> 0,
                  new_list |-> <<>>, picked |-> <<>>, marked |-> <<>>]
    /\ UNCHANGED <<walFile, walSynced, wal, table, seqno, pc, pend, nOps,
                   nRuns, nFlushes, event, last, acked, maybe, maxAcked,
                   lastAssigned, runStart, snap, allocated, walRecords,
                   lockVars, fnVars, histVars, extVars, manifestSynced, sstables,
                   imm, flushed, pushed, threadVars>>

\* `if let Some(frozen) = imm_tables.pop_front()`, else on to park.
Loop_pop_front ==
    /\ phase = "open"
    /\ worker.at = "loop"
    /\ \E p \in {FrozenTables_pop_front(imm, flushed)} :
        worker' = IF p.some
                  THEN [worker EXCEPT !.at = "flush", !.table = p.val,
                                      !.picked = Append(@, p.val)]
                  ELSE [worker EXCEPT !.at = "park"]
    /\ UNCHANGED <<threadUnchanged, manifest, manifestFile, imm, flushed,
                   pushed, threadVars>>

\* flush_memtable on the table, its writes and syncs succeeding.
Loop_flush ==
    /\ phase = "open"
    /\ worker.at = "flush"
    /\ \E f \in {Manager_flush_memtable(manifest, manifestFile, worker.table)} :
        /\ manifest' = f.manifest
        /\ manifestFile' = f.file
    /\ worker' = [worker EXCEPT !.at = "mark"]
    /\ UNCHANGED <<threadUnchanged, imm, flushed, pushed, threadVars>>

\* mark_flushed; then the top of the loop again, or compact first.
Loop_mark_flushed ==
    /\ phase = "open"
    /\ worker.at = "mark"
    /\ flushed' = FrozenTables_mark_flushed(flushed)
    /\ \E next \in {"loop", "compact"} :
        worker' = [worker EXCEPT !.at = next,
                                 !.marked = Append(@, worker.table)]
    /\ UNCHANGED <<threadUnchanged, manifest, manifestFile, imm, pushed,
                   threadVars>>

\* FrozenTables::compact: rcu loads the list and runs the closure, which
\* builds the list without the flushed tables and stores 0 in flushed.
Loop_compact ==
    /\ phase = "open"
    /\ worker.at = "compact"
    /\ \E c \in {FrozenTables_compact(imm, flushed)} :
        /\ worker' = [worker EXCEPT !.at = "swap", !.cur = tablesPtr,
                                    !.new_list = c.tables]
        /\ flushed' = c.flushed
    /\ UNCHANGED <<threadUnchanged, manifest, manifestFile, imm, pushed,
                   threadVars>>

\* rcu's compare-and-swap in compact: the new list goes in if the list is
\* the one that was loaded; else the closure runs again on the list found.
Loop_compact_swap ==
    /\ phase = "open"
    /\ worker.at = "swap"
    /\ IF tablesPtr = worker.cur
       THEN /\ imm' = worker.new_list
            /\ tablesPtr' = tablesPtr + 1
            /\ worker' = [worker EXCEPT !.at = "loop"]
            /\ UNCHANGED flushed
       ELSE \E c \in {FrozenTables_compact(imm, flushed)} :
            /\ worker' = [worker EXCEPT !.cur = tablesPtr,
                                        !.new_list = c.tables]
            /\ flushed' = c.flushed
            /\ UNCHANGED <<imm, tablesPtr>>
    /\ UNCHANGED <<threadUnchanged, manifest, manifestFile, pushed, writer,
                   parkToken>>

\* std::thread::park() in the else branch.
Loop_park ==
    /\ phase = "open"
    /\ worker.at = "park"
    /\ parkToken' = Park(parkToken).token
    /\ worker' = [worker EXCEPT !.at = IF Park(parkToken).parked
                                       THEN "parked" ELSE "loop"]
    /\ UNCHANGED <<threadUnchanged, manifest, manifestFile, imm, flushed,
                   pushed, tablesPtr, writer>>

\* The parked thread is woken by the token and takes it.
Loop_unparked ==
    /\ phase = "open"
    /\ worker.at = "parked"
    /\ parkToken
    /\ parkToken' = FALSE
    /\ worker' = [worker EXCEPT !.at = "loop"]
    /\ UNCHANGED <<threadUnchanged, manifest, manifestFile, imm, flushed,
                   pushed, tablesPtr, writer>>

\* park may also return with no unpark.
Loop_spurious_wakeup ==
    /\ phase = "open"
    /\ worker.at = "parked"
    /\ ~parkToken
    /\ worker' = [worker EXCEPT !.at = "loop"]
    /\ UNCHANGED <<threadUnchanged, manifest, manifestFile, imm, flushed,
                   pushed, threadVars>>

\* maybe_rotate_memtable freezes the memtable and calls push: rcu loads the
\* list and runs the closure, which appends the table.
Rotate_push ==
    /\ phase = "open"
    /\ writer.at = "idle"
    /\ Len(pushed) < MaxPushes
    /\ writer' = [at |-> "swap", table |-> FrozenTable(Len(pushed) + 1),
                  cur |-> tablesPtr,
                  new_list |-> FrozenTables_push(
                                   imm, FrozenTable(Len(pushed) + 1))]
    /\ UNCHANGED <<threadUnchanged, manifest, manifestFile, imm, flushed,
                   pushed, worker, tablesPtr, parkToken>>

\* rcu's compare-and-swap in push.
Rotate_push_swap ==
    /\ phase = "open"
    /\ writer.at = "swap"
    /\ IF tablesPtr = writer.cur
       THEN /\ imm' = writer.new_list
            /\ tablesPtr' = tablesPtr + 1
            /\ pushed' = Append(pushed, writer.table)
            /\ writer' = [writer EXCEPT !.at = "unpark"]
       ELSE /\ writer' = [writer EXCEPT
                             !.cur = tablesPtr,
                             !.new_list = FrozenTables_push(imm, writer.table)]
            /\ UNCHANGED <<imm, tablesPtr, pushed>>
    /\ UNCHANGED <<threadUnchanged, manifest, manifestFile, flushed, worker,
                   parkToken>>

\* self.flush_thread.thread().unpark()
Rotate_unpark ==
    /\ phase = "open"
    /\ writer.at = "unpark"
    /\ parkToken' = TRUE
    /\ writer' = WriterIdle
    /\ UNCHANGED <<threadUnchanged, manifest, manifestFile, imm, flushed,
                   pushed, worker, tablesPtr>>

NextWorker ==
    \/ Worker_spawn
    \/ Loop_pop_front
    \/ Loop_flush
    \/ Loop_mark_flushed
    \/ Loop_compact
    \/ Loop_compact_swap
    \/ Loop_park
    \/ Loop_unparked
    \/ Loop_spurious_wakeup
    \/ Rotate_push
    \/ Rotate_push_swap
    \/ Rotate_unpark

SpecWorker == Init /\ [][NextWorker]_vars

\* Both threads are scheduled again and again: the flush thread takes the
\* step it is at, and the writer finishes the maybe_rotate_memtable it is
\* in.  Nothing makes the writer begin another rotation, and nothing makes
\* park return without an unpark.
FairWorker ==
    /\ WF_vars(Worker_spawn)
    /\ WF_vars(Loop_pop_front)
    /\ WF_vars(Loop_flush)
    /\ WF_vars(Loop_mark_flushed)
    /\ WF_vars(Loop_compact)
    /\ WF_vars(Loop_compact_swap)
    /\ WF_vars(Loop_park)
    /\ WF_vars(Loop_unparked)
    /\ WF_vars(Rotate_push_swap)
    /\ WF_vars(Rotate_unpark)

SpecWorkerFair == SpecWorker /\ FairWorker

\* C28: every frozen memtable that was pushed is in the end returned to the
\* flush thread by pop_front, the threads being scheduled fairly and the
\* flushes succeeding; an unpark that comes between a pop_front that found
\* nothing and the park is not lost.
C28_PushedEventuallyPicked ==
    \A i \in 1..MaxPushes :
        (Len(pushed) >= i)
            ~> (/\ phase = "open"
                /\ Len(pushed) >= i
                /\ \E j \in 1..Len(worker.picked) :
                       worker.picked[j] = pushed[i])

\* C28's case: pop_front found nothing, and before the flush thread parks
\* the writer has pushed a table and called unpark.
C28_Witness ==
    /\ phase = "open"
    /\ worker.at = "park"
    /\ parkToken
    /\ FrozenTables_pop_front(imm, flushed).some

\* The CreateFile records of the manifest file.
CreateFileCount ==
    Cardinality({i \in 1..Len(manifestFile) :
                    manifestFile[i].kind = "CreateFile"})

\* C29: when the writer has frozen and pushed MaxPushes memtables and has
\* stopped, and the flush thread is parked with no unpark pending, pop_front
\* has returned each pushed table once, in the order of the pushes, the
\* manifest file has one CreateFile record per table, and the frozen queue
\* holds no table that is not flushed.
C29_DrainedExactlyOnce ==
    (/\ phase = "open"
     /\ writer.at = "idle"
     /\ Len(pushed) = MaxPushes
     /\ worker.at = "parked"
     /\ ~parkToken) =>
        /\ worker.picked = pushed
        /\ worker.marked = pushed
        /\ CreateFileCount = MaxPushes
        /\ FrozenTables_iter(imm, flushed) = <<>>

\* C30: outside a compact that is under way, the tables marked flushed are
\* the first `flushed` tables of the list and no others (compact has taken
\* away flushed tables only, and has set the counter to 0 only with them
\* gone), so pop_front does not return a table that was marked; and every
\* pushed table that is not marked is in the list, also one pushed while
\* compact ran.
C30_CompactRemovesFlushedPrefix ==
    (phase = "open" /\ worker.at # "swap") =>
        /\ \A k \in 1..Len(imm) :
               (k <= flushed) <=>
                   (\E j \in 1..Len(worker.marked) : worker.marked[j] = imm[k])
        /\ \A p \in {FrozenTables_pop_front(imm, flushed)} :
               p.some =>
                   \A j \in 1..Len(worker.marked) : worker.marked[j] # p.val
        /\ \A i \in 1..Len(pushed) :
               \/ \E j \in 1..Len(worker.marked) : worker.marked[j] = pushed[i]
               \/ \E k \in 1..Len(imm) : imm[k] = pushed[i]

\* ---------------------------------------------------------------------
\* A reader beside the flush thread and the writer.  FrozenTables::iter
\* loads the list, then the flushed counter, and skips that many tables
\* of the list it loaded; the other threads run between the two loads.
\* ---------------------------------------------------------------------

readerUnchanged == <<dbVars, lockVars, flushVars, fnVars, histVars, boot,
                     oneshot>>

\* self.tables.load().as_ref().clone()
Iter_load_tables ==
    /\ phase = "open"
    /\ reader.at \in {"idle", "done"}
    /\ reader' = [at |-> "skip", list |-> imm, pushed |-> pushed]
    /\ UNCHANGED readerUnchanged

\* .into_iter().skip(self.flushed.load(Relaxed))
Iter_load_flushed ==
    /\ phase = "open"
    /\ reader.at = "skip"
    /\ reader' = [at |-> "done", list |-> reader.list,
                  pushed |-> reader.pushed, skip |-> flushed,
                  tables |-> FrozenTables_iter(reader.list, flushed)]
    /\ UNCHANGED readerUnchanged

NextReader ==
    \/ NextWorker
    \/ Iter_load_tables
    \/ Iter_load_flushed

SpecReader == Init /\ [][NextReader]_vars

\* The tables the flush thread has marked flushed so far.
MarkedFlushed == {worker.marked[j] : j \in 1..Len(worker.marked)}

\* C31: the tables an iter has skipped were all marked flushed; the tables
\* it returns include every table that was pushed before it loaded the list
\* and is not marked flushed; and the flushed counter is never greater than
\* the length of the list.
C31_IterSkipsOnlyFlushed ==
    /\ flushed <= Len(imm)
    /\ reader.at = "done" =>
        /\ \A k \in 1..Len(reader.list) :
               k <= reader.skip => reader.list[k] \in MarkedFlushed
        /\ \A i \in 1..Len(reader.pushed) :
               reader.pushed[i] \notin MarkedFlushed =>
                   \E k \in 1..Len(reader.tables) :
                       reader.tables[k] = reader.pushed[i]

\* C31's case: compact has dropped a table and a later table was marked
\* between the two loads of an iter that went on to skip a table.
C31_Witness ==
    /\ reader.at = "done"
    /\ reader.skip > 0
    /\ Len(reader.list) > reader.skip
    /\ reader.list # imm
    /\ Len(worker.marked) = 2

\* ---------------------------------------------------------------------
\* The write path with rotation, the flush worker and recovery together,
\* the records of the acknowledged calls kept: what stays in wal.log.
\* ---------------------------------------------------------------------

NextRetention ==
    \/ NextWal
    \/ Flush_step
    \/ Compact_step

SpecRetention == Init /\ [][NextRetention]_vars

\* The bytes enc are in file, one after the other.
BytesOccur(enc, file) ==
    \E o \in 0..(Len(file) - Len(enc)) :
        SubSeq(file, o + 1, o + Len(enc)) = enc

\* No step takes bytes away from wal.log or changes bytes it holds.
Wal_only_grows ==
    /\ Len(walFile') >= Len(walFile)
    /\ SubSeq(walFile', 1, Len(walFile)) = walFile

\* C32: no step, rotation included, truncates wal.log or removes a record
\* from it, and in every state the record of each acknowledged put/delete
\* is in the part of wal.log covered by a sync_all, also when its memtable
\* has been frozen, flushed to an SSTable and dropped from the queue.
C32_AckedStaysInWal ==
    /\ [](\A i \in 1..Len(ackedRecords) :
             BytesOccur(EncodeWalRecord(ackedRecords[i]),
                        SubSeq(walFile, 1, walSynced)))
    /\ [][Wal_only_grows]_vars

\* C32's case: acknowledged mutations whose memtable was frozen by a
\* rotation, flushed with a CreateFile record in the manifest and dropped
\* from the frozen queue by compact, and whose records wal.log still holds.
C32_Witness ==
    /\ phase = "open"
    /\ Len(ackedRecords) >= 1
    /\ nFlushes >= 1
    /\ \E i \in 1..Len(manifestFile) : manifestFile[i].kind = "CreateFile"
    /\ imm = <<>>
    /\ table = MemTable_new
    /\ \A i \in 1..Len(ackedRecords) :
           BytesOccur(EncodeWalRecord(ackedRecords[i]), walFile)

\* ---------------------------------------------------------------------
\* MemTable::put and MemTable::delete called one after the other on an
\* active memtable, with internal keys that come again and values of
\* different lengths.
\* ---------------------------------------------------------------------

SizeKeys == {Key_new(<<1>>, 1), Key_new(<<1>>, 2), Key_new(<<1, 1>>, 1)}

SizeVals == {<<>>, <<3>>, <<3, 4>>}

\* A put (val is Some) or delete (val is None) with its internal key.
SizeOps == [key : SizeKeys, val : {Some(v) : v \in SizeVals} \cup {None}]

InitMemSize ==
    /\ FnInit
    /\ \E n \in 0..MaxEntries : \E ops \in [1..n -> SizeOps] :
         input = [ops |-> ops, done |-> 0, table |-> MemTable_new]

\* The next call is a put.
Table_put ==
    /\ input.done < Len(input.ops)
    /\ input.ops[input.done + 1].val.some
    /\ \E o \in {input.ops[input.done + 1]} :
        /\ input' = [input EXCEPT !.done = @ + 1,
                                  !.table = MemTable_put(@, o.key, o.val.val)]
        /\ output' = Returned([old |-> BTree_insert(input.table.data, o.key,
                                                   Data(o.val.val)).old,
                               new |-> Data(o.val.val)])
    /\ UNCHANGED <<dbVars, lockVars, flushVars, histVars, extVars>>

\* The next call is a delete.
Table_delete ==
    /\ input.done < Len(input.ops)
    /\ ~input.ops[input.done + 1].val.some
    /\ \E o \in {input.ops[input.done + 1]} :
        /\ input' = [input EXCEPT !.done = @ + 1,
                                  !.table = MemTable_delete(@, o.key)]
        /\ output' = Returned([old |-> BTree_insert(input.table.data, o.key,
                                                   Tombstone).old,
                               new |-> Tombstone])
    /\ UNCHANGED <<dbVars, lockVars, flushVars, histVars, extVars>>

NextMemSize ==
    \/ Table_put
    \/ Table_delete

SpecMemSize == InitMemSize /\ [][NextMemSize]_vars

\* Length of the payload of a value: 0 for a tombstone.
PayloadLen(v) == IF v.tag = "Data" THEN Len(v.bytes) ELSE 0

\* Sum over the entries from the i-th on of user-key length plus payload
\* length.
RECURSIVE EntriesSize(_, _)
EntriesSize(data, i) ==
    IF i > Len(data) THEN 0
    ELSE Len(data[i].key.uk) + PayloadLen(data[i].val)
             + EntriesSize(data, i + 1)

\* C33: after every put and delete the size field is the sum over the
\* stored entries of user-key length plus payload length, whatever value an
\* entry with the same internal key held before, and so is never below 0.
C33_SizeIsSumOfEntries ==
    /\ input.table.size = EntriesSize(input.table.data, 1)
    /\ input.table.size >= 0

\* C33's case: one internal key written as Data, overwritten by a
\* Tombstone, by Data, by shorter Data, or by a Tombstone twice, with the
\* size following: the last call replaced a value of the same internal key.
C33_Witness ==
    /\ input.done = 3
    /\ output.done
    /\ output.val.old.some
    /\ Len(input.table.data) = 1
    /\ \/ /\ input.ops[2].val = None
          /\ input.ops[3].val = Some(<<3>>)
          /\ input.ops[1].val = Some(<<3, 4>>)
          /\ input.table.size = 2
       \/ /\ input.ops[1].val = None
          /\ input.ops[2].val = None
          /\ input.ops[3].val = None
          /\ input.table.size = 1

\* ---------------------------------------------------------------------
\* A flush that fails, in the steps of the flush worker (SpecFlush).
\* ---------------------------------------------------------------------

\* The step in which flush_memtable returns Err to the worker's loop.
FlushFails == worker.at \in {"write", "sync"} /\ worker' = WorkerIdle

\* What a failed flush leaves of the writer and of the frozen queue: the
\* writer is where it was, the table is still the one pop_front returns,
\* and iter still yields it, so get reads it.
FailedFlushKeepsTable ==
    /\ <<pc, pend, table, wal, seqno, walFile>>' =
           <<pc, pend, table, wal, seqno, walFile>>
    /\ FrozenTables_pop_front(imm', flushed') = Some(worker.table)
    /\ \E i \in 1..Len(FrozenTables_iter(imm', flushed')) :
           FrozenTables_iter(imm', flushed')[i] = worker.table

\* C34: when the flush of a frozen memtable fails, the writer is not
\* affected, the table stays at the front of the queue, unflushed and read
\* by get, pop_front returns it again, and the manifest holds no CreateFile
\* record of the attempt that failed.
C34_FailedFlushLeavesNoCreateFile ==
    [][FlushFails =>
          /\ FailedFlushKeepsTable
          /\ \A i \in 1..Len(manifestFile') :
                 ~(/\ manifestFile'[i].kind = "CreateFile"
                   /\ manifestFile'[i].file_meta.file_number = worker.fileno)
      ]_vars

\* ---------------------------------------------------------------------
\* The SSTable manager with manifest I/O that can fail: the write of a
\* record's frame (write_framed returns Err, the record is not in the
\* file) or the fsync after it.  Each call notes what it returned and the
\* in-memory manifest it found.
\* ---------------------------------------------------------------------

\* Calls of alloc_file_number and finalize_sstable made on one manager.
MaxManagerCalls == 4

IoOutcomes == {"ok", "write fails", "sync fails"}

\* append_record: write_framed, and only if it succeeded the record is
\* applied to the in-memory manifest.
Manager_append_record_io(m, file, record, io) ==
    IF io = "write fails"
    THEN [result |-> "Err", manifest |-> m, file |-> file]
    ELSE [result |-> "Ok", manifest |-> Manager_apply_record(m, record),
          file |-> Append(file, record)]

\* alloc_file_number: Manifest::alloc_file_number advances next_file_number
\* in memory, then append_record(record)? and sync()?.
Manager_alloc_file_number_io(m, file, io) ==
    LET a  == Manifest_alloc_file_number(m)
        ap == Manager_append_record_io(a.manifest, file, a.record, io)
    IN  [result |-> IF io = "ok" THEN "Ok" ELSE "Err",
         fileno |-> a.id,
         manifest |-> ap.manifest,
         file |-> ap.file]

\* The end of finalize_sstable: append_record(CreateFile)? and sync()?.
Manager_finalize_sstable_io(m, file, record, io) ==
    LET ap == Manager_append_record_io(m, file, record, io)
    IN  [result |-> IF io = "ok" THEN "Ok" ELSE "Err",
         manifest |-> ap.manifest,
         file |-> ap.file]

ioUnchanged ==
    <<phase, current, nRuns, walFile, walSynced, wal, table, imm, flushed,
      seqno, pc, pend, nOps, event, last, acked, maybe, maxAcked,
      lastAssigned, runStart, snap, walRecords, lockVars, flushVars,
      histVars, extVars, input>>

Io_alloc_file_number ==
    /\ phase = "open"
    /\ nFlushes < MaxManagerCalls
    /\ \E io \in IoOutcomes :
       \E a \in {Manager_alloc_file_number_io(manifest, manifestFile, io)} :
        /\ manifest' = a.manifest
        /\ manifestFile' = a.file
        /\ allocated' = IF a.result = "Ok" THEN Append(allocated, a.fileno)
                        ELSE allocated
        /\ output' = Returned([call |-> "alloc_file_number",
                               result |-> a.result, fileno |-> a.fileno,
                               before |-> manifest])
    /\ nFlushes' = nFlushes + 1
    /\ UNCHANGED ioUnchanged

\* finalize_sstable for the file number just allocated, the SSTable file
\* written and synced.
Io_finalize_sstable ==
    /\ phase = "open"
    /\ nFlushes < MaxManagerCalls
    /\ output.done
    /\ output.val.call = "alloc_file_number"
    /\ output.val.result = "Ok"
    /\ \E io \in IoOutcomes, t \in FlushTables :
       \E f \in {Manager_finalize_sstable_io(
                     manifest, manifestFile,
                     RecCreateFile(0, FileMeta(output.val.fileno, t)), io)} :
        /\ manifest' = f.manifest
        /\ manifestFile' = f.file
        /\ output' = Returned([call |-> "finalize_sstable",
                               result |-> f.result,
                               fileno |-> output.val.fileno,
                               before |-> manifest])
    /\ nFlushes' = nFlushes + 1
    /\ UNCHANGED <<ioUnchanged, allocated>>

NextManifestIo ==
    \/ SSTableManager_open
    \/ Io_alloc_file_number
    \/ Io_finalize_sstable

SpecManifestIo == Init /\ [][NextManifestIo]_vars

\* C35: when alloc_file_number or finalize_sstable has returned an error
\* because the write or the fsync of its manifest record failed, the
\* in-memory manifest (next_file_number, the file maps of the levels,
\* last_committed_sequence_number) is the one the call found.
C35_FailedStepLeavesManifest ==
    (phase = "open" /\ output.done /\ output.val.result = "Err") =>
        manifest = output.val.before

\* ---------------------------------------------------------------------
\* Rotation by WAL size.  wal.log is never truncated, so a database is
\* opened on the WAL its earlier runs left: complete records of puts and
\* deletes with the sequence numbers 1, 2, ... in order.
\* ---------------------------------------------------------------------

\* Records in wal.log when the process first opens it.
MaxPriorRecords == 4

\* The records earlier runs left: the i-th has sequence number i.
PriorWals ==
    UNION {{[i \in 1..n |-> IF puts[i]
                            THEN WalPut(Key_new(<<1>>, i), <<3>>)
                            ELSE WalDelete(Key_new(<<1>>, i))] :
                puts \in [1..n -> BOOLEAN]} : n \in 0..MaxPriorRecords}

RECURSIVE EncodeWalRecords(_)
EncodeWalRecords(recs) ==
    IF recs = <<>> THEN <<>>
    ELSE EncodeWalRecord(Head(recs)) \o EncodeWalRecords(Tail(recs))

InitRotate ==
    /\ AuxInit
    /\ \E recs \in PriorWals :
        /\ walFile = EncodeWalRecords(recs)
        /\ walSynced = Len(walFile)
        /\ walRecords = recs
        /\ maxAcked = Len(recs)
        /\ acked = [k \in UserKeys |->
                      IF k = <<1>> /\ recs # <<>>
                      THEN RecordResult(recs[Len(recs)]) ELSE None]
    /\ phase = "down"
    /\ wal = [size |-> 0, len |-> 0]
    /\ table = MemTable_new
    /\ imm = <<>>
    /\ flushed = 0
    /\ seqno = 0
    /\ manifest = Manifest_new
    /\ manifestFile = <<>>
    /\ current = None
    /\ pc = "idle"
    /\ pend = NoRecord
    /\ nOps = 0
    /\ nRuns = 0
    /\ nFlushes = 0
    /\ event = "init"
    /\ last = [k \in UserKeys |-> Unknown]
    /\ maybe = [k \in UserKeys |-> {}]
    /\ lastAssigned = <<0, 0>>
    /\ runStart = 0
    /\ snap = NoSnap
    /\ allocated = <<>>

NextRotate ==
    \/ Open
    \/ Put_append
    \/ Delete_append
    \/ Wal_sync
    \/ Put_insert
    \/ Delete_insert
    \/ Flush_step
    \/ Compact_step

SpecRotate == InitRotate /\ [][NextRotate]_vars

\* The step in which a put or delete inserts into the memtable, rotates and
\* returns Ok, the WAL having been over its threshold before the call.
InsertPastThreshold ==
    /\ phase = "open"
    /\ pc = "insert"
    /\ pc' = "idle"
    /\ wal.size - Len(EncodeWalRecord(pend)) > WAL_MAX_SIZE

\* The mutation leaves the active memtable empty and the queue longer by
\* one table.
FreezesOnMutation ==
    /\ table' = MemTable_new
    /\ Len(imm') = Len(imm) + 1
    /\ SubSeq(imm', 1, Len(imm)) = imm

\* C36 as stated: once the WAL size has exceeded WAL_MAX_SIZE, every later
\* successful put or delete leaves the active memtable empty and adds to the
\* frozen queue one table that holds a single entry.
C36_SingleEntryTablePerMutation ==
    [][InsertPastThreshold =>
          /\ FreezesOnMutation
          /\ Len(imm'[Len(imm')].data) = 1]_vars

\* C36 amended: once the WAL size has exceeded WAL_MAX_SIZE, every later
\* successful put or delete leaves the active memtable empty and adds to the
\* frozen queue one table: the active memtable with the mutation applied.
\* That table holds the entry of the mutation alone, except for the first
\* mutation after an open, whose table also holds the entries that the
\* replay of the WAL left in the active memtable.
C36_FreezePerMutation ==
    [][InsertPastThreshold =>
          /\ FreezesOnMutation
          /\ imm'[Len(imm')].data = Database_apply(table, pend).data
          /\ (seqno > runStart + 1 => Len(imm'[Len(imm')].data) = 1)
          /\ (seqno = runStart + 1 =>
                  table = Database_open_replay(
                              Wal_replay(SubSeq(
                                  walFile, 1,
                                  Len(walFile) - Len(EncodeWalRecord(pend)))).recs,
                              manifest.last_committed_sequence_number).table)
      ]_vars

\* C36's case: with the WAL over its threshold, two deletes in a row have
\* each frozen a table of one tombstone, far below the memtable's own
\* threshold, and left the active memtable empty.
C36_Witness ==
    /\ phase = "open"
    /\ pc = "idle"
    /\ wal.size > WAL_MAX_SIZE
    /\ seqno = runStart + 2
    /\ table = MemTable_new
    /\ Len(imm) >= 2
    /\ \A j \in {Len(imm) - 1, Len(imm)} :
           /\ Len(imm[j].data) = 1
           /\ imm[j].data[1].val = Tombstone
           /\ imm[j].size < MEMTABLE_MAX_SIZE
    /\ imm[Len(imm)].data[1].key.sn = seqno - 1
    /\ imm[Len(imm) - 1].data[1].key.sn = seqno - 2

\* C37: a partly written record that a crash inside an append left at the
\* end of wal.log does no harm: whatever is appended after the next open,
\* replay does not fail and returns, in order, every record that was
\* written in full, those written before the crash and those written after.
C37_TornTailHarmless ==
    \E rp \in {Wal_replay(walFile)} :
        /\ rp.st = "ok"
        /\ IsSubSeq(walRecords, rp.recs)

\* ---------------------------------------------------------------------
\* SSTableManager::open in the steps of its bootstrap, with the process
\* killed between any two of them or inside the write of CURRENT, and the
\* next open on the directory the kill left.  A kill loses no byte that
\* was written.
\* ---------------------------------------------------------------------

\* CURRENT as OpenOptions::create leaves it: a file holding no name.
EmptyFileName == [stem |-> <<>>, ext |-> ""]

\* CURRENT after the first n bytes of the name were written.
PartialFileName(name, n) == [stem |-> SubSeq(name.stem, 1, n), ext |-> ""]

EmptyManifestDir == [current |-> None, files |-> [n \in ManifestNames |-> None]]

BootDown(dir, runs, st) ==
    [at |-> "down", dir |-> dir, manifest |-> None, runs |-> runs, st |-> st]

bootUnchanged == <<dbVars, lockVars, flushVars, fnVars, histVars, reader,
                   oneshot>>

\* The first process starts on an empty manifests directory.
Boot_start ==
    /\ boot = BootIdle
    /\ boot' = BootDown(EmptyManifestDir, 0, "none")
    /\ UNCHANGED bootUnchanged

\* open with CURRENT absent and the directory empty: CURRENT is created.
Boot_create_current ==
    /\ boot.at = "down"
    /\ ~boot.dir.current.some
    /\ Dir_is_empty(boot.dir)
    /\ boot' = [boot EXCEPT !.at = "created",
                            !.dir.current = Some(EmptyFileName),
                            !.manifest = Some(Manager_bootstrap.manifest)]
    /\ UNCHANGED bootUnchanged

\* set_len(0) and write_all of the manifest's file name to CURRENT.
Boot_write_current ==
    /\ boot.at = "created"
    /\ boot' = [boot EXCEPT
                   !.at = "written",
                   !.dir.current = Some(format_file_name(
                                       Manager_bootstrap.current.val,
                                       MANIFEST_FILE_EXT))]
    /\ UNCHANGED bootUnchanged

\* flush and sync_all of CURRENT.
Boot_sync_current ==
    /\ boot.at = "written"
    /\ boot' = [boot EXCEPT !.at = "synced"]
    /\ UNCHANGED bootUnchanged

\* The manifest file is created, empty.
Boot_create_manifest ==
    /\ boot.at = "synced"
    /\ boot' = [boot EXCEPT !.at = "file",
                            !.dir.files[boot.dir.current.val] = Some(<<>>)]
    /\ UNCHANGED bootUnchanged

\* write_framed of the Snapshot record.
Boot_write_snapshot ==
    /\ boot.at = "file"
    /\ boot' = [boot EXCEPT !.at = "snapshot",
                            !.dir.files[boot.dir.current.val] =
                                Some(Manager_bootstrap.file)]
    /\ UNCHANGED bootUnchanged

\* flush and sync_all of the manifest file; open returns the manager.
Boot_sync_manifest ==
    /\ boot.at = "snapshot"
    /\ boot' = [boot EXCEPT !.at = "open", !.st = "ok"]
    /\ UNCHANGED bootUnchanged

\* open with CURRENT present, or absent beside manifest files: the manifest
\* CURRENT names is replayed, or open fails; nothing is written.
Boot_open_existing ==
    /\ boot.at = "down"
    /\ boot.dir.current.some \/ ~Dir_is_empty(boot.dir)
    /\ \E o \in {Manager_open_dir(boot.dir)} :
        boot' = [boot EXCEPT !.at = IF o.st = "ok" THEN "open" ELSE "failed",
                             !.manifest = o.manifest,
                             !.st = o.st]
    /\ UNCHANGED bootUnchanged

\* The open manager allocates a file number.
Boot_alloc_file_number ==
    /\ boot.at = "open"
    /\ Len(boot.dir.files[boot.dir.current.val].val) < MaxManifestRecords
    /\ \E a \in {Manager_alloc_file_number(
                     boot.manifest.val,
                     boot.dir.files[boot.dir.current.val].val)} :
        boot' = [boot EXCEPT !.manifest = Some(a.manifest),
                             !.dir.files[boot.dir.current.val] = Some(a.file)]
    /\ UNCHANGED bootUnchanged

\* The open manager appends a SetLastSeqNo record.
Boot_set_last_seqno ==
    /\ boot.at = "open"
    /\ Len(boot.dir.files[boot.dir.current.val].val) < MaxManifestRecords
    /\ \E n \in 1..MaxCommitted :
       \E ap \in {Manager_append_record_io(
                      boot.manifest.val,
                      boot.dir.files[boot.dir.current.val].val,
                      RecSetLastSeqNo(n), "ok")} :
        boot' = [boot EXCEPT !.manifest = Some(ap.manifest),
                             !.dir.files[boot.dir.current.val] = Some(ap.file)]
    /\ UNCHANGED bootUnchanged

\* The process is killed, or ends after an open that failed.
Boot_kill ==
    /\ boot.at \notin {"idle", "down"}
    /\ boot.runs < MaxRuns
    /\ boot' = BootDown(boot.dir, boot.runs + 1, boot.st)
    /\ UNCHANGED bootUnchanged

\* The process is killed inside the write of the name to CURRENT.
Boot_kill_in_write ==
    /\ boot.at = "created"
    /\ boot.runs < MaxRuns
    /\ \E n \in 1..5 :
        boot' = BootDown(
                    [boot.dir EXCEPT
                        !.current = Some(PartialFileName(
                                        format_file_name(
                                            Manager_bootstrap.current.val,
                                            MANIFEST_FILE_EXT), n))],
                    boot.runs + 1, boot.st)
    /\ UNCHANGED bootUnchanged

NextBootstrap ==
    \/ Boot_start
    \/ Boot_create_current
    \/ Boot_write_current
    \/ Boot_sync_current
    \/ Boot_create_manifest
    \/ Boot_write_snapshot
    \/ Boot_sync_manifest
    \/ Boot_open_existing
    \/ Boot_alloc_file_number
    \/ Boot_set_last_seqno
    \/ Boot_kill
    \/ Boot_kill_in_write

SpecBootstrap == Init /\ [][NextBootstrap]_vars

\* CURRENT names a manifest file that exists and begins with a Snapshot.
CurrentNamesManifest(dir) ==
    /\ dir.current.val \in DOMAIN dir.files
    /\ dir.files[dir.current.val].some
    /\ dir.files[dir.current.val].val # <<>>
    /\ dir.files[dir.current.val].val[1].kind = "Snapshot"

\* C38: wherever the process is killed in the bootstrap, the next open
\* succeeds: in every state in which CURRENT exists on disk, it names a
\* manifest file that exists and holds the initial Snapshot record, and
\* open on the directory a kill left returns a manager.
C38_BootstrapCrashSafe ==
    boot.at # "idle" =>
        /\ boot.dir.current.some => CurrentNamesManifest(boot.dir)
        /\ boot.at = "down" => Manager_open_dir(boot.dir).st = "ok"

-----------------------------------------------------------------------------
\* The one-shot channel of oneshot.rs: Sender and Receiver share one Inner
\* behind Rc<RefCell<..>>, both live on one thread, so every call runs from
\* its borrow_mut to its return without another call in between.

MaxPolls == 3

OneshotValues == {"a", "b", "c"}
OneshotWakers == {"w1", "w2"}

\* enum State<T>
State_Empty == [tag |-> "Empty"]
State_Waiting(waker) == [tag |-> "Waiting", waker |-> waker]
State_Ready(val) == [tag |-> "Ready", val |-> val]
State_Closed == [tag |-> "Closed"]

\* Poll<Result<T, Canceled>>
Poll_Pending == [poll |-> "Pending"]
Poll_ReadyOk(val) == [poll |-> "Ready", ok |-> TRUE, val |-> val]
Poll_ReadyCanceled == [poll |-> "Ready", ok |-> FALSE]

\* The match of Sender::send on the state it replaced by Closed: the state it
\* leaves, its result and the wakers it woke.
Sender_send_match(state, val) ==
    CASE state.tag = "Empty" ->
           [state |-> State_Ready(val), res |-> "Ok", woke |-> <<>>]
      [] state.tag = "Waiting" ->
           [state |-> State_Ready(val), res |-> "Ok", woke |-> <<state.waker>>]
      [] state.tag = "Ready" ->
           [state |-> State_Closed, res |-> "panic", woke |-> <<>>]
      [] state.tag = "Closed" ->
           [state |-> State_Closed, res |-> "Err", woke |-> <<>>]

\* Drop for Sender: the state is replaced by Closed whatever it was, a stored
\* waker is woken.
Sender_drop(state) ==
    IF state.tag = "Waiting"
    THEN [state |-> State_Closed, woke |-> <<state.waker>>]
    ELSE [state |-> State_Closed, woke |-> <<>>]

\* Sender::send takes self by value and does not forget it: when the match
\* has produced the result and the RefMut is released, self goes out of scope
\* and Drop for Sender runs on the state the match left.
Sender_send(state, val) ==
    LET sent == Sender_send_match(state, val)
        dropped == Sender_drop(sent.state)
    IN  [state |-> dropped.state, res |-> sent.res,
         woke |-> sent.woke \o dropped.woke]

\* Receiver::poll with the waker of the context.
Receiver_poll(state, waker) ==
    CASE state.tag = "Ready" ->
           [state |-> State_Empty, out |-> Poll_ReadyOk(state.val)]
      [] state.tag = "Closed" ->
           [state |-> State_Empty, out |-> Poll_ReadyCanceled]
      [] OTHER ->
           [state |-> State_Waiting(waker), out |-> Poll_Pending]

oneshotUnchanged == <<dbVars, lockVars, flushVars, fnVars, histVars, reader,
                      boot>>

\* channel(): tx is the Sender (held, sent, dropped), rx the Receiver; sent,
\* sentAt, outs and woken record what the calls were given and returned.
Oneshot_channel ==
    /\ oneshot = NoChannel
    /\ oneshot' = [at |-> "open", state |-> State_Empty, tx |-> "held",
                   rx |-> "held", sent |-> None, res |-> "none", sentAt |-> 0,
                   outs |-> <<>>, woken |-> <<>>, waiting |-> None]
    /\ UNCHANGED oneshotUnchanged

\* tx.send(val)
Oneshot_send ==
    /\ oneshot.at = "open"
    /\ oneshot.tx = "held"
    /\ \E val \in OneshotValues :
         \E r \in {Sender_send(oneshot.state, val)} :
           oneshot' = [oneshot EXCEPT
                         !.state = r.state, !.tx = "sent",
                         !.sent = Some(val), !.res = r.res,
                         !.sentAt = Len(oneshot.outs),
                         !.woken = oneshot.woken \o r.woke,
                         !.waiting = IF oneshot.state.tag = "Waiting"
                                     THEN Some(oneshot.state.waker)
                                     ELSE None]
    /\ UNCHANGED oneshotUnchanged

\* drop(tx) without a send
Oneshot_drop_sender ==
    /\ oneshot.at = "open"
    /\ oneshot.tx = "held"
    /\ \E r \in {Sender_drop(oneshot.state)} :
         oneshot' = [oneshot EXCEPT
                       !.state = r.state, !.tx = "dropped",
                       !.woken = oneshot.woken \o r.woke,
                       !.waiting = IF oneshot.state.tag = "Waiting"
                                   THEN Some(oneshot.state.waker)
                                   ELSE None]
    /\ UNCHANGED oneshotUnchanged

\* rx.poll(cx): a future is not polled again once it has returned Ready.
Oneshot_poll ==
    /\ oneshot.at = "open"
    /\ oneshot.rx = "held"
    /\ Len(oneshot.outs) < MaxPolls
    /\ \A i \in 1..Len(oneshot.outs) : oneshot.outs[i] = Poll_Pending
    /\ \E waker \in OneshotWakers :
         \E r \in {Receiver_poll(oneshot.state, waker)} :
           oneshot' = [oneshot EXCEPT !.state = r.state,
                                      !.outs = Append(oneshot.outs, r.out)]
    /\ UNCHANGED oneshotUnchanged

\* drop(rx): Receiver has no Drop, the state stays as it is.
Oneshot_drop_receiver ==
    /\ oneshot.at = "open"
    /\ oneshot.rx = "held"
    /\ oneshot' = [oneshot EXCEPT !.rx = "dropped"]
    /\ UNCHANGED oneshotUnchanged

NextOneshot ==
    \/ Oneshot_channel
    \/ Oneshot_send
    \/ Oneshot_drop_sender
    \/ Oneshot_poll
    \/ Oneshot_drop_receiver

SpecOneshot == Init /\ [][NextOneshot]_vars

\* The first poll after the send returned the value that was sent.
PollAfterSendIsValue ==
    (/\ oneshot.tx = "sent"
     /\ oneshot.res = "Ok"
     /\ Len(oneshot.outs) > oneshot.sentAt)
        => oneshot.outs[oneshot.sentAt + 1] = Poll_ReadyOk(oneshot.sent.val)

\* Err(Canceled) was returned only with the sender dropped without a send.
CanceledOnlyOnDrop ==
    \A i \in 1..Len(oneshot.outs) :
        oneshot.outs[i] = Poll_ReadyCanceled => oneshot.tx = "dropped"

\* The waker that was stored when the sender sent or was dropped was woken.
WaitingReceiverWoken ==
    (oneshot.tx \in {"sent", "dropped"} /\ oneshot.waiting.some)
        => \E i \in 1..Len(oneshot.woken) :
               oneshot.woken[i] = oneshot.waiting.val

\* C39: after Sender::send(v) returned Ok, the next poll of the Receiver
\* returns Ready(Ok(v)), with or without a waker stored before the send;
\* Err(Canceled) is returned only when the sender was dropped without
\* sending; a waker stored by an earlier poll is woken by the send and by
\* the drop.
C39_SendDeliversValue ==
    oneshot.at = "open" =>
        /\ PollAfterSendIsValue
        /\ CanceledOnlyOnDrop
        /\ WaitingReceiverWoken
=============================================================================
